---- MODULE Spec2Model ----
(***************************************************************************)
(* Workspace registry and IPC command dispatcher of sartwc.                *)
(*                                                                         *)
(* Text is modelled as sequences of byte values (a C string without its    *)
(* terminating NUL).  A workspace pointer is modelled as the 1-based       *)
(* position of the workspace in server->workspaces.all; destroy_workspace  *)
(* renumbers the references that point behind the destroyed element and    *)
(* turns the references to the destroyed element into FREED.               *)
(***************************************************************************)
EXTENDS Integers, Sequences, FiniteSets, TLC

(* ----------------------------- bounds ---------------------------------- *)
MaxWs == 3          \* workspace-add and reconfigure never grow the registry beyond this
MaxViews == 1       \* number of windows the window registry can hold
MaxClients == 2     \* number of connections the listener accepts at a time
\* the cap on a connection's buffered bytes, scaled down from 64 * 1024: the
\* code compares the buffer length with it and uses it for nothing else
IPC_MAX_RECV_BUF == 32

(* ------------------------- program constants --------------------------- *)
NULL == 0           \* the null pointer
FREED == -1         \* a pointer to a workspace that destroy_workspace has freed
NUL == 0
TAB == 9
LF == 10
CR == 13
SPACE == 32
PCT == 37
EQ == 61
IPC_BUF_SIZE == 4096

(* ------------------------------ text ----------------------------------- *)
RECURSIVE Decimal(_)
\* snprintf(.., "%d", n)
Decimal(n) ==
    IF n < 0 THEN <<45>> \o Decimal(-n)
    ELSE IF n < 10 THEN <<48 + n>>
    ELSE Decimal(n \div 10) \o <<48 + (n % 10)>>

\* a char * read as a C string: the bytes before the first NUL
RECURSIVE CStr(_)
CStr(b) ==
    IF b = <<>> \/ Head(b) = NUL THEN <<>> ELSE <<Head(b)>> \o CStr(Tail(b))

isspace(c) == c \in {SPACE, TAB, LF, 11, 12, CR}
tolower(c) == IF c \in 65..90 THEN c + 32 ELSE c

\* !strcasecmp(a, b)
strcasecmp_eq(a, b) ==
    /\ Len(a) = Len(b)
    /\ \A i \in 1..Len(a) : tolower(a[i]) = tolower(b[i])

\* !strncasecmp(a, b, strlen(b))
strncasecmp_eq(a, b) ==
    /\ Len(a) >= Len(b)
    /\ \A i \in 1..Len(b) : tolower(a[i]) = tolower(b[i])

(* ------------------------------ state ---------------------------------- *)
VARIABLES
    all,        \* server->workspaces.all: the workspaces in list order
    current,    \* server->workspaces.current
    last,       \* server->workspaces.last
    views,      \* server->views: for every window its workspace and omnipresence
    grabbed,    \* server->grabbed_view
    file,       \* content of the state file workspaces.txt, or Absent
    fs_ok,      \* whether the state directory can be written in this session
    clients,    \* ipc_clients: for every descriptor the struct ipc_client on it
    crashed     \* the process has died of a use of freed memory

vars == <<all, current, last, views, grabbed, file, fs_ok, clients, crashed>>

Absent == <<NUL>>   \* no state file (no stored file holds a NUL byte)

Views == 1..MaxViews
NoView == [mapped |-> FALSE, workspace |-> NULL, omni |-> FALSE]

\* the server state a handler works on; log collects, in order, what the
\* handler does: the calls into collaborators, the events and the responses
\* fd is the descriptor of the client whose line handle_command is handling
\* (client_fd), NULL when the model leaves the connection out
St ==
    [all |-> all, current |-> current, last |-> last, views |-> views,
     grabbed |-> grabbed, file |-> file, fs_ok |-> fs_ok, log |-> <<>>,
     clients |-> clients, crashed |-> crashed, fd |-> NULL]

Emit(s, e) == [s EXCEPT !.log = Append(@, e)]

(* ---------------------------- connections ------------------------------ *)
\* descriptors of accepted connections
Fds == 1..MaxClients

\* struct ipc_client; writable is the socket's state: whether a write() on
\* the non-blocking descriptor succeeds (the peer reads and has not closed)
\* pending holds the bytes the peer has written and the server has not read
NoClient ==
    [live |-> FALSE, subscribed_events |-> FALSE, recv_buf |-> <<>>,
     writable |-> FALSE, pending |-> <<>>]
NewClient ==
    [live |-> TRUE, subscribed_events |-> FALSE, recv_buf |-> <<>>,
     writable |-> TRUE, pending |-> <<>>]

\* ipc_client_destroy() without wl_list_remove(&client->link)
ipc_client_destroy_listed(s, c) ==
    Emit([s EXCEPT !.clients[c].recv_buf = <<>>, !.clients[c].writable = FALSE],
         [k |-> "close", fd |-> c])

\* ipc_client_destroy(): close the descriptor, unlink and free the client
ipc_client_destroy(s, c) ==
    Emit([s EXCEPT !.clients[c] = NoClient], [k |-> "close", fd |-> c])

\* ipc_send_raw() with a failed write treated as the end of the connection
ipc_send_raw_drop(s, fd, data) ==
    LET ok == fd \in Fds /\ s.clients[fd].live /\ s.clients[fd].writable
        t == Emit(s, [k |-> "write", fd |-> fd, data |-> data, ok |-> ok])
    IN  [st |-> IF ok \/ fd \notin Fds THEN t ELSE ipc_client_destroy(t, fd), ok |-> ok]

\* ipc_send_raw(): [st |-> the state afterwards, ok |-> the value returned];
\* the write fails on a closed descriptor and on a socket that takes no data
ipc_send_raw(s, fd, data) ==
    LET ok == fd \in Fds /\ s.clients[fd].live /\ s.clients[fd].writable
    IN  [st |-> Emit(s, [k |-> "write", fd |-> fd, data |-> data, ok |-> ok]),
         ok |-> ok]

RECURSIVE BroadcastFrom(_, _, _)
\* wl_list_for_each_safe(client, tmp, &ipc_clients, link) from client c on
BroadcastFrom(s, data, c) ==
    IF c > MaxClients THEN s
    ELSE IF ~s.clients[c].live \/ ~s.clients[c].subscribed_events
    THEN BroadcastFrom(s, data, c + 1)
    ELSE
    LET Sent(r) == IF r.ok THEN r.st ELSE ipc_client_destroy(r.st, c)
    IN  BroadcastFrom(Sent(ipc_send_raw(s, c, data)), data, c + 1)

RECURSIVE BroadcastToAllFrom(_, _, _)
BroadcastToAllFrom(s, data, c) ==
    IF c > MaxClients THEN s
    ELSE IF ~s.clients[c].live THEN BroadcastToAllFrom(s, data, c + 1)
    ELSE
    LET r == ipc_send_raw(s, c, data)
    IN  BroadcastToAllFrom(IF r.ok THEN r.st ELSE ipc_client_destroy(r.st, c),
                           data, c + 1)

ipc_broadcast_raw_all(s, data) == BroadcastToAllFrom(s, data, 1)

ipc_broadcast_raw(s, data) == BroadcastFrom(s, data, 1)

\* ipc_broadcast_event(): "EVENT " event "\n" to every subscriber
ipc_broadcast_event(s, event) == ipc_broadcast_raw(s, event)

Names(s) == [i \in 1..Len(s.all) |-> s.all[i].name]
\* wl_list_length() counting the links between the elements
wl_list_length_off(s) == Len(s.all) - 1
wl_list_length(s) == Len(s.all)
EnabledSet(s) == {i \in 1..Len(s.all) : s.all[i].enabled}

(* --------------------------- collaborators ----------------------------- *)
wlr_scene_node_set_enabled(s, w, v) ==
    LET t == IF w \in 1..Len(s.all) THEN [s EXCEPT !.all[w].enabled = v] ELSE s
    IN  Emit(t, [k |-> "enabled", w |-> w, v |-> v, on |-> EnabledSet(t)])

lab_cosmic_workspace_set_active(s, w, v) ==
    LET t == IF w \in 1..Len(s.all) THEN [s EXCEPT !.all[w].cosmic_active = v] ELSE s
    IN  Emit(t, [k |-> "cosmic_active", w |-> w, v |-> v])

lab_ext_workspace_set_active(s, w, v) ==
    LET t == IF w \in 1..Len(s.all) THEN [s EXCEPT !.all[w].ext_active = v] ELSE s
    IN  Emit(t, [k |-> "ext_active", w |-> w, v |-> v])

view_move_to_workspace(s, v, w) ==
    Emit([s EXCEPT !.views[v].workspace = w], [k |-> "move", view |-> v, to |-> w])

(* ------------------------------ events --------------------------------- *)
workspace_index(s, w) ==
    IF w = NULL THEN 0 ELSE IF w \in 1..Len(s.all) THEN w ELSE 0

ipc_notify_workspace_changed(s) ==
    LET event == [k |-> "event", name |-> "workspace-changed",
                  current |-> workspace_index(s, s.current), count |-> 0]
    IN  ipc_broadcast_event(Emit(s, event), event)

ipc_notify_workspace_list_changed(s) ==
    LET event == [k |-> "event", name |-> "workspace-list-changed",
                  current |-> workspace_index(s, s.current),
                  count |-> wl_list_length(s)]
    IN  ipc_broadcast_event(Emit(s, event), event)

\* ipc_send_str(client_fd, msg): the response to the client of the line
ipc_send_str(s, msg) ==
    LET response == [k |-> "send", msg |-> msg]
    IN  IF s.fd = NULL THEN Emit(s, response)
        ELSE ipc_send_raw(Emit(s, response), s.fd, response).st

\* handle_query_*(): one payload, built in a buffer and sent in one piece
handle_query(s, what) ==
    LET response == [k |-> "query", what |-> what]
    IN  IF s.fd = NULL THEN Emit(s, response)
        ELSE ipc_send_raw(Emit(s, response), s.fd, response).st

(* ---------------------------- persistence ------------------------------ *)
RECURSIVE Serialize(_)
\* fputs(name); fputc('\n') for every workspace in list order
Serialize(names) ==
    IF names = <<>> THEN <<>> ELSE Head(names) \o <<LF>> \o Serialize(Tail(names))

\* where a persistence attempt can fail: mkdir_p(), fopen() of the temporary
\* file, fputs()/fputc(), fclose(), rename(); none is the attempt that succeeds
PersistFailures == {"none", "mkdir", "fopen", "write", "fclose", "rename"}

\* workspace_state_persist() that writes to the canonical path itself
workspace_state_persist_inplace(old, data, fail, cut) ==
    LET at(f) == [file |-> f, tmp |-> Absent]
        written == IF fail = "write" THEN cut ELSE Len(data)
    IN  IF fail \in {"mkdir", "fopen"} THEN <<at(old)>>
        ELSE <<at(old), at(<<>>)>> \o [k \in 1..written |-> at(SubSeq(data, 1, k))]

\* the files after each step of workspace_state_persist(): file is the
\* canonical state file, which held old, tmp the temporary file next to it,
\* data the bytes of the write loop; a failing write has put the first cut
\* bytes into the temporary file. The steps are fopen(tmp_path, "w"), every
\* byte written, and rename(tmp_path, path) or unlink(tmp_path)
workspace_state_persist_steps(old, data, fail, cut) ==
    LET at(tmp) == [file |-> old, tmp |-> tmp]
        written == IF fail = "write" THEN cut ELSE Len(data)
    IN  IF fail \in {"mkdir", "fopen"} THEN <<at(Absent)>>
        ELSE <<at(Absent), at(<<>>)>>
             \o [k \in 1..written |-> at(SubSeq(data, 1, k))]
             \o <<IF fail = "none" THEN [file |-> data, tmp |-> Absent]
                   ELSE at(Absent)>>

workspace_state_persist(s) ==
    IF s.fs_ok
    THEN Emit([s EXCEPT !.file = Serialize(Names(s))],
              [k |-> "persist", ok |-> TRUE, data |-> Serialize(Names(s))])
    ELSE Emit(s, [k |-> "persist", ok |-> FALSE, data |-> Serialize(Names(s))])

RECURSIVE StripEol(_)
\* while (nread > 0 && (line[nread-1] == '\n' || line[nread-1] == '\r')) line[--nread] = 0
StripEol(line) ==
    IF line # <<>> /\ line[Len(line)] \in {LF, CR}
    THEN StripEol(SubSeq(line, 1, Len(line) - 1)) ELSE line

\* one getline() result becomes a list entry unless it is empty after stripping
KeepLine(out, line) ==
    IF StripEol(line) = <<>> THEN out ELSE Append(out, CStr(StripEol(line)))

RECURSIVE ReadLines(_, _, _)
ReadLines(bytes, line, out) ==
    IF bytes = <<>> THEN (IF line = <<>> THEN out ELSE KeepLine(out, line))
    ELSE IF Head(bytes) = LF
         THEN ReadLines(Tail(bytes), <<>>, KeepLine(out, Append(line, LF)))
         ELSE ReadLines(Tail(bytes), Append(line, Head(bytes)), out)

\* the list it loads; the empty list stands for the result false
workspace_config_list_load_persisted(f) ==
    IF f = Absent THEN <<>> ELSE ReadLines(f, <<>>, <<>>)

(* ------------------------------ registry ------------------------------- *)
\* workspace_by_index() that returns the last workspace for an index past the end
workspace_by_index_clamped(s, index) ==
    IF index < 1 THEN NULL ELSE IF index <= Len(s.all) THEN index ELSE Len(s.all)

\* workspace_by_index(): the workspace at a 1-based index, or NULL
workspace_by_index(s, index) ==
    IF index < 1 THEN NULL ELSE IF index <= Len(s.all) THEN index ELSE NULL

\* the new workspace is appended, its tree disabled; the handles of the two
\* workspace groups are created inactive
\* add_workspace() with wl_list_insert() for wl_list_append()
add_workspace_head(s, name) ==
    LET t == [s EXCEPT !.all = <<[name |-> name, enabled |-> TRUE,
                                  cosmic_active |-> FALSE, ext_active |-> FALSE]>> \o @]
    IN  wlr_scene_node_set_enabled(t, 1, FALSE)

add_workspace(s, name) ==
    LET t == [s EXCEPT !.all = Append(@,
                 [name |-> name, enabled |-> TRUE,
                  cosmic_active |-> FALSE, ext_active |-> FALSE])]
    IN  wlr_scene_node_set_enabled(t, Len(t.all), FALSE)

RECURSIVE MoveOmnipresent(_, _, _)
\* wl_list_for_each_reverse(view, &server->views, link), from view v down
MoveOmnipresent(s, target, v) ==
    IF v < 1 THEN s
    ELSE MoveOmnipresent(
            IF s.views[v].mapped /\ s.views[v].omni
            THEN view_move_to_workspace(s, v, target) ELSE s,
            target, v - 1)

\* workspaces_switch_to() that forgets to save the last visited workspace
workspaces_switch_to_nolast(s, target, update_focus) ==
    IF target = s.current THEN s
    ELSE
    LET s1 == wlr_scene_node_set_enabled(s, s.current, FALSE)
        s2 == lab_cosmic_workspace_set_active(s1, s1.current, FALSE)
        s3 == lab_ext_workspace_set_active(s2, s2.current, FALSE)
        s4 == MoveOmnipresent(s3, target, MaxViews)
        s5 == wlr_scene_node_set_enabled(s4, target, TRUE)
        s7 == [s5 EXCEPT !.current = target]
        s8 == IF s7.grabbed # NULL
              THEN view_move_to_workspace(s7, s7.grabbed, target) ELSE s7
        s9 == lab_cosmic_workspace_set_active(s8, target, TRUE)
        s10 == lab_ext_workspace_set_active(s9, target, TRUE)
    IN  ipc_notify_workspace_changed(s10)

\* workspaces_switch_to() without the early return for the current workspace
workspaces_switch_to_always(s, target, update_focus) ==
    LET s1 == wlr_scene_node_set_enabled(s, s.current, FALSE)
        s2 == lab_cosmic_workspace_set_active(s1, s1.current, FALSE)
        s3 == lab_ext_workspace_set_active(s2, s2.current, FALSE)
        s4 == MoveOmnipresent(s3, target, MaxViews)
        s5 == wlr_scene_node_set_enabled(s4, target, TRUE)
        s6 == [s5 EXCEPT !.last = s5.current]
        s7 == [s6 EXCEPT !.current = target]
        s8 == IF s7.grabbed # NULL
              THEN view_move_to_workspace(s7, s7.grabbed, target) ELSE s7
        s9 == lab_cosmic_workspace_set_active(s8, target, TRUE)
        s10 == lab_ext_workspace_set_active(s9, target, TRUE)
    IN  ipc_notify_workspace_changed(s10)

\* workspaces_switch_to() that enables the target before it disables the old
\* workspace
workspaces_switch_to_overlap(s, target, update_focus) ==
    IF target = s.current THEN s
    ELSE
    LET s1 == wlr_scene_node_set_enabled(s, target, TRUE)
        s2 == wlr_scene_node_set_enabled(s1, s1.current, FALSE)
        s3 == lab_cosmic_workspace_set_active(s2, s2.current, FALSE)
        s4 == lab_ext_workspace_set_active(s3, s3.current, FALSE)
        s5 == MoveOmnipresent(s4, target, MaxViews)
        s6 == [s5 EXCEPT !.last = s5.current]
        s7 == [s6 EXCEPT !.current = target]
        s8 == IF s7.grabbed # NULL
              THEN view_move_to_workspace(s7, s7.grabbed, target) ELSE s7
        s9 == lab_cosmic_workspace_set_active(s8, target, TRUE)
        s10 == lab_ext_workspace_set_active(s9, target, TRUE)
    IN  ipc_notify_workspace_changed(s10)

\* workspaces_switch_to() that marks the target active on the cosmic handle only
workspaces_switch_to_noext(s, target, update_focus) ==
    IF target = s.current THEN s
    ELSE
    LET s1 == wlr_scene_node_set_enabled(s, s.current, FALSE)
        s2 == lab_cosmic_workspace_set_active(s1, s1.current, FALSE)
        s3 == lab_ext_workspace_set_active(s2, s2.current, FALSE)
        s4 == MoveOmnipresent(s3, target, MaxViews)
        s5 == wlr_scene_node_set_enabled(s4, target, TRUE)
        s6 == [s5 EXCEPT !.last = s5.current]
        s7 == [s6 EXCEPT !.current = target]
        s8 == IF s7.grabbed # NULL
              THEN view_move_to_workspace(s7, s7.grabbed, target) ELSE s7
        s9 == lab_cosmic_workspace_set_active(s8, target, TRUE)
    IN  ipc_notify_workspace_changed(s9)

\* The calls into focus, on-screen display, cursor and top-layer code
\* (update_focus, _osd_show, cursor_update_focus,
\* desktop_update_top_layer_visibility) change no state of the registry.
workspaces_switch_to(s, target, update_focus) ==
    LET \* the statements of the function in their order, each on the state t
        \* the one before it leaves
        Hide(t) == wlr_scene_node_set_enabled(t, t.current, FALSE)
        CosmicOff(t) == lab_cosmic_workspace_set_active(t, t.current, FALSE)
        ExtOff(t) == lab_ext_workspace_set_active(t, t.current, FALSE)
        Omnipresent(t) == MoveOmnipresent(t, target, MaxViews)
        Show(t) == wlr_scene_node_set_enabled(t, target, TRUE)
        SetLast(t) == [t EXCEPT !.last = t.current]
        SetCurrent(t) == [t EXCEPT !.current = target]
        Grabbed(t) == IF t.grabbed # NULL
                      THEN view_move_to_workspace(t, t.grabbed, target) ELSE t
        CosmicOn(t) == lab_cosmic_workspace_set_active(t, target, TRUE)
        ExtOn(t) == lab_ext_workspace_set_active(t, target, TRUE)
    IN  IF target = s.current THEN s
        ELSE ipc_notify_workspace_changed(
                ExtOn(CosmicOn(Grabbed(SetCurrent(SetLast(Show(
                    Omnipresent(ExtOff(CosmicOff(Hide(s)))))))))))

\* a pointer after the workspace at index w has been unlinked and freed
Unlinked(ref, w) == IF ref = w THEN FREED ELSE IF ref > w THEN ref - 1 ELSE ref

destroy_workspace(s, w) ==
    Emit([s EXCEPT
            !.all = SubSeq(@, 1, w - 1) \o SubSeq(@, w + 1, Len(@)),
            !.current = Unlinked(@, w),
            !.last = Unlinked(@, w),
            !.views = [v \in Views |-> [@[v] EXCEPT !.workspace = Unlinked(@, w)]]],
         [k |-> "destroy", w |-> w])

RECURSIVE MoveViewsOfPlain(_, _, _, _)
\* the loop over server->views that spares omnipresent views
MoveViewsOfPlain(s, w, to, v) ==
    IF v > MaxViews THEN s
    ELSE MoveViewsOfPlain(
            IF s.views[v].mapped /\ s.views[v].workspace = w /\ ~s.views[v].omni
            THEN view_move_to_workspace(s, v, to) ELSE s,
            w, to, v + 1)

RECURSIVE MoveViewsOf(_, _, _, _)
\* wl_list_for_each(view, &server->views, link): views v..MaxViews on workspace w
MoveViewsOf(s, w, to, v) ==
    IF v > MaxViews THEN s
    ELSE MoveViewsOf(
            IF s.views[v].mapped /\ s.views[v].workspace = w
            THEN view_move_to_workspace(s, v, to) ELSE s,
            w, to, v + 1)

\* workspaces_add_named() that broadcasts before it persists
workspaces_add_named_switch(s, name) ==
    IF name = <<>> THEN [st |-> s, ok |-> FALSE]
    ELSE
    LET s1 == add_workspace(s, name)
    IN  [st |-> ipc_notify_workspace_list_changed(workspace_state_persist(
                    workspaces_switch_to(s1, Len(s1.all), TRUE))),
         ok |-> TRUE]

workspaces_add_named_swapped(s, name) ==
    IF name = <<>> THEN [st |-> s, ok |-> FALSE]
    ELSE [st |-> workspace_state_persist(
                    ipc_notify_workspace_list_changed(add_workspace(s, name))),
          ok |-> TRUE]

\* [st |-> the state afterwards, ok |-> the value returned]
\* workspaces_add_named() that undoes the add when the list is not persisted
workspaces_add_named_checked(s, name) ==
    IF name = <<>> \/ ~s.fs_ok THEN [st |-> s, ok |-> FALSE]
    ELSE [st |-> ipc_notify_workspace_list_changed(
                    workspace_state_persist(add_workspace(s, name))),
          ok |-> TRUE]

workspaces_add_named(s, name) ==
    IF name = <<>> THEN [st |-> s, ok |-> FALSE]
    ELSE [st |-> ipc_notify_workspace_list_changed(
                    workspace_state_persist(add_workspace(s, name))),
          ok |-> TRUE]

\* workspaces_rename_index() without the strcmp() of the old and new name
workspaces_rename_index_always(s, index, name) ==
    IF name = <<>> THEN [st |-> s, ok |-> FALSE]
    ELSE
    LET workspace == workspace_by_index(s, index) IN
    IF workspace = NULL THEN [st |-> s, ok |-> FALSE]
    ELSE [st |-> ipc_notify_workspace_list_changed(
                    workspace_state_persist(
                        Emit([s EXCEPT !.all[workspace].name = name],
                             [k |-> "set_name", w |-> workspace, name |-> name]))),
          ok |-> TRUE]

workspaces_rename_index(s, index, name) ==
    IF name = <<>> THEN [st |-> s, ok |-> FALSE]
    ELSE
    LET workspace == workspace_by_index(s, index) IN
    IF workspace = NULL THEN [st |-> s, ok |-> FALSE]
    ELSE IF s.all[workspace].name # name
    THEN [st |-> ipc_notify_workspace_list_changed(
                    workspace_state_persist(
                        Emit([s EXCEPT !.all[workspace].name = name],
                             [k |-> "set_name", w |-> workspace, name |-> name]))),
          ok |-> TRUE]
    ELSE [st |-> s, ok |-> TRUE]

\* workspaces_remove_index() without the check of the list length and of the
\* fallback
workspaces_remove_index_unguarded(s, index) ==
    LET workspace == workspace_by_index(s, index) IN
    IF workspace = NULL THEN [st |-> s, ok |-> FALSE]
    ELSE
    LET fallback == IF workspace # Len(s.all) THEN workspace + 1 ELSE 1
        s1 == MoveViewsOf(Emit(s, [k |-> "overlay_finish"]), workspace, fallback, 1)
        s2 == IF s1.current = workspace
              THEN workspaces_switch_to(s1, fallback, TRUE) ELSE s1
        s3 == IF s2.last = workspace THEN [s2 EXCEPT !.last = fallback] ELSE s2
        s4 == destroy_workspace(s3, workspace)
    IN  [st |-> ipc_notify_workspace_list_changed(workspace_state_persist(s4)),
         ok |-> TRUE]

\* workspaces_remove_index() that destroys the current workspace without
\* switching to the fallback first
workspaces_remove_index_noswitch(s, index) ==
    IF wl_list_length(s) <= 1 THEN [st |-> s, ok |-> FALSE]
    ELSE
    LET workspace == workspace_by_index(s, index) IN
    IF workspace = NULL THEN [st |-> s, ok |-> FALSE]
    ELSE
    LET fallback == IF workspace # Len(s.all) THEN workspace + 1 ELSE 1
        s1 == MoveViewsOf(Emit(s, [k |-> "overlay_finish"]), workspace, fallback, 1)
        s3 == IF s1.last = workspace THEN [s1 EXCEPT !.last = fallback] ELSE s1
        s4 == destroy_workspace(s3, workspace)
    IN  [st |-> ipc_notify_workspace_list_changed(workspace_state_persist(s4)),
         ok |-> TRUE]

\* workspaces_remove_index() whose fallback is always the head of the list
workspaces_remove_index_head(s, index) ==
    IF wl_list_length(s) <= 1 THEN [st |-> s, ok |-> FALSE]
    ELSE
    LET workspace == workspace_by_index(s, index) IN
    IF workspace = NULL THEN [st |-> s, ok |-> FALSE]
    ELSE
    LET fallback == IF workspace # 1 THEN 1 ELSE 2
        s1 == MoveViewsOf(Emit(s, [k |-> "overlay_finish"]), workspace, fallback, 1)
        s2 == IF s1.current = workspace
              THEN workspaces_switch_to(s1, fallback, TRUE) ELSE s1
        s3 == IF s2.last = workspace THEN [s2 EXCEPT !.last = fallback] ELSE s2
        s4 == destroy_workspace(s3, workspace)
    IN  [st |-> ipc_notify_workspace_list_changed(workspace_state_persist(s4)),
         ok |-> TRUE]

\* workspaces_remove_index() that does not repoint last
workspaces_remove_index_nolast(s, index) ==
    IF wl_list_length(s) <= 1 THEN [st |-> s, ok |-> FALSE]
    ELSE
    LET workspace == workspace_by_index(s, index) IN
    IF workspace = NULL THEN [st |-> s, ok |-> FALSE]
    ELSE
    LET fallback == IF workspace # Len(s.all) THEN workspace + 1 ELSE 1
        s1 == MoveViewsOf(Emit(s, [k |-> "overlay_finish"]), workspace, fallback, 1)
        s2 == IF s1.current = workspace
              THEN workspaces_switch_to(s1, fallback, TRUE) ELSE s1
        s4 == destroy_workspace(s2, workspace)
    IN  [st |-> ipc_notify_workspace_list_changed(workspace_state_persist(s4)),
         ok |-> TRUE]

workspaces_remove_index(s, index) ==
    IF wl_list_length(s) <= 1 THEN [st |-> s, ok |-> FALSE]
    ELSE
    LET workspace == workspace_by_index(s, index) IN
    IF workspace = NULL THEN [st |-> s, ok |-> FALSE]
    ELSE
    LET fallback == IF workspace # Len(s.all) THEN workspace + 1 ELSE 1 IN
    IF fallback = workspace THEN [st |-> s, ok |-> FALSE]
    ELSE
    LET MoveViews(t) == MoveViewsOf(t, workspace, fallback, 1)
        SwitchAway(t) == IF t.current = workspace
                         THEN workspaces_switch_to(t, fallback, TRUE) ELSE t
        FixLast(t) == IF t.last = workspace THEN [t EXCEPT !.last = fallback] ELSE t
        Destroy(t) == destroy_workspace(t, workspace)
    IN  [st |-> ipc_notify_workspace_list_changed(workspace_state_persist(
                    Destroy(FixLast(SwitchAway(MoveViews(
                        Emit(s, [k |-> "overlay_finish"]))))))),
         ok |-> TRUE]

(* ---------------------------- reconfigure ------------------------------ *)
RECURSIVE ReconfigureMatch(_, _, _, _)
\* wl_list_for_each(conf, workspace_source, link); link is the position of
\* workspace_link, Len(all) + 1 standing for the list head &server->workspaces.all
ReconfigureMatch(s, source, link, list_changed) ==
    IF source = <<>> THEN [st |-> s, link |-> link, list_changed |-> list_changed]
    ELSE
    LET conf == Head(source) IN
    IF link > Len(s.all)
    THEN ReconfigureMatch(add_workspace(s, conf), Tail(source), link + 1, TRUE)
    ELSE IF s.all[link].name # conf
    THEN ReconfigureMatch(
            Emit([s EXCEPT !.all[link].name = conf],
                 [k |-> "set_name", w |-> link, name |-> conf]),
            Tail(source), link + 1, TRUE)
    ELSE ReconfigureMatch(s, Tail(source), link + 1, list_changed)

RECURSIVE ReconfigureShrinkKeepLast(_, _, _)
\* the shrink loop without the repointing of server->workspaces.last
ReconfigureShrinkKeepLast(s, link, first_workspace) ==
    IF link > Len(s.all) THEN s
    ELSE
    LET s1 == MoveViewsOf(s, link, first_workspace, 1)
        s2 == IF s1.current = link
              THEN workspaces_switch_to(s1, first_workspace, TRUE) ELSE s1
    IN  ReconfigureShrinkKeepLast(destroy_workspace(s2, link), link,
                                  Unlinked(first_workspace, link))

RECURSIVE ReconfigureShrinkNoSwitch(_, _, _)
\* the shrink loop without the switch away from the current workspace
ReconfigureShrinkNoSwitch(s, link, first_workspace) ==
    IF link > Len(s.all) THEN s
    ELSE
    LET s1 == MoveViewsOf(s, link, first_workspace, 1)
        s3 == IF s1.last = link THEN [s1 EXCEPT !.last = first_workspace] ELSE s1
    IN  ReconfigureShrinkNoSwitch(destroy_workspace(s3, link), link,
                                  Unlinked(first_workspace, link))

RECURSIVE ReconfigureShrink(_, _, _)
\* while (workspace_link != &server->workspaces.all): destroy the workspace
\* at workspace_link; its successor then has the same position
ReconfigureShrink(s, link, first_workspace) ==
    IF link > Len(s.all) THEN s
    ELSE
    LET s1 == MoveViewsOf(s, link, first_workspace, 1)
        s2 == IF s1.current = link
              THEN workspaces_switch_to(s1, first_workspace, TRUE) ELSE s1
        s3 == IF s2.last = link THEN [s2 EXCEPT !.last = first_workspace] ELSE s2
    IN  ReconfigureShrink(destroy_workspace(s3, link), link,
                          Unlinked(first_workspace, link))

\* workspaces_reconfigure() that always takes the declared list
workspaces_reconfigure_declared(s, rc) ==
    LET m == ReconfigureMatch(s, rc, 1, FALSE)
    IN  IF m.link > Len(m.st.all)
        THEN IF m.list_changed
             THEN ipc_notify_workspace_list_changed(workspace_state_persist(m.st))
             ELSE m.st
        ELSE ipc_notify_workspace_list_changed(workspace_state_persist(
                ReconfigureShrink(Emit(m.st, [k |-> "overlay_finish"]), m.link, 1)))

\* rc is rc.workspace_config.workspaces, the declared list of names
workspaces_reconfigure(s, rc) ==
    LET persisted == workspace_config_list_load_persisted(s.file)
        have_persisted == persisted # <<>>
        workspace_source == IF have_persisted THEN persisted ELSE rc
        m == ReconfigureMatch(s, workspace_source, 1, FALSE)
    IN  IF m.link > Len(m.st.all)
        THEN IF m.list_changed
             THEN ipc_notify_workspace_list_changed(workspace_state_persist(m.st))
             ELSE m.st
        ELSE ipc_notify_workspace_list_changed(workspace_state_persist(
                ReconfigureShrink(Emit(m.st, [k |-> "overlay_finish"]), m.link, 1)))

(* ------------------------------ startup -------------------------------- *)
\* workspaces_init() that leaves the state file of the earlier session alone
workspaces_init_keep(s) ==
    LET s1 == add_workspace(s, Decimal(1))
        s2 == [s1 EXCEPT !.current = 1]
        s3 == wlr_scene_node_set_enabled(s2, 1, TRUE)
        s4 == lab_cosmic_workspace_set_active(s3, 1, TRUE)
    IN  lab_ext_workspace_set_active(s4, 1, TRUE)

\* workspaces_init() on the server state before any workspace exists
workspaces_init(s) ==
    LET s1 == add_workspace(s, Decimal(1))
        initial == 1
        s2 == [s1 EXCEPT !.current = initial]
        s3 == wlr_scene_node_set_enabled(s2, initial, TRUE)
        s4 == lab_cosmic_workspace_set_active(s3, initial, TRUE)
        s5 == lab_ext_workspace_set_active(s4, initial, TRUE)
    IN  workspace_state_persist(s5)

(* ------------------------- command parsing ----------------------------- *)
kw_ping == <<112, 105, 110, 103>>
kw_subscribe_events ==
    <<115, 117, 98, 115, 99, 114, 105, 98, 101, 45, 101, 118, 101, 110, 116, 115>>
kw_list_views == <<108, 105, 115, 116, 45, 118, 105, 101, 119, 115>>
kw_list_views_json ==
    <<108, 105, 115, 116, 45, 118, 105, 101, 119, 115, 45, 106, 115, 111, 110>>
kw_list_workspaces ==
    <<108, 105, 115, 116, 45, 119, 111, 114, 107, 115, 112, 97, 99, 101, 115>>
kw_list_workspaces_json ==
    <<108, 105, 115, 116, 45, 119, 111, 114, 107, 115, 112, 97, 99, 101, 115,
      45, 106, 115, 111, 110>>
kw_workspace_add == <<119, 111, 114, 107, 115, 112, 97, 99, 101, 45, 97, 100, 100>>
kw_workspace_rename ==
    <<119, 111, 114, 107, 115, 112, 97, 99, 101, 45, 114, 101, 110, 97, 109, 101>>
kw_workspace_remove ==
    <<119, 111, 114, 107, 115, 112, 97, 99, 101, 45, 114, 101, 109, 111, 118, 101>>
kw_name == <<110, 97, 109, 101>>
kw_index == <<105, 110, 100, 101, 120>>

RECURSIVE LStrip(_)
LStrip(b) == IF b # <<>> /\ isspace(Head(b)) THEN LStrip(Tail(b)) ELSE b

RECURSIVE RStrip(_)
RStrip(b) ==
    IF b # <<>> /\ isspace(b[Len(b)]) THEN RStrip(SubSeq(b, 1, Len(b) - 1)) ELSE b

\* string_strip(): without leading and trailing white space
string_strip(b) == RStrip(LStrip(b))

RECURSIVE Tokens(_, _, _)
\* the tokens successive strtok_r(.., " \t", ..) calls return
Tokens(b, tok, out) ==
    IF b = <<>> THEN (IF tok = <<>> THEN out ELSE Append(out, tok))
    ELSE IF Head(b) \in {SPACE, TAB}
         THEN Tokens(Tail(b), <<>>, IF tok = <<>> THEN out ELSE Append(out, tok))
         ELSE Tokens(Tail(b), Append(tok, Head(b)), out)

RECURSIVE strchr(_, _, _)
\* position of the first c in b at or after position i, 0 if there is none
strchr(b, c, i) ==
    IF i > Len(b) THEN 0 ELSE IF b[i] = c THEN i ELSE strchr(b, c, i + 1)

RECURSIVE ArgValue(_, _, _)
\* the loop over the tokens: the text after '=' of the last token whose key
\* is key, or dflt
ArgValue(toks, key, dflt) ==
    IF toks = <<>> THEN dflt
    ELSE
    LET tok == Head(toks)
        eq == strchr(tok, EQ, 1)
    IN  IF eq # 0 /\ strcasecmp_eq(SubSeq(tok, 1, eq - 1), key)
        THEN ArgValue(Tail(toks), key, SubSeq(tok, eq + 1, Len(tok)))
        ELSE ArgValue(Tail(toks), key, dflt)

RECURSIVE Digits(_, _)
Digits(b, acc) ==
    IF b # <<>> /\ Head(b) \in 48..57
    THEN Digits(Tail(b), 10 * acc + (Head(b) - 48)) ELSE acc

atoi(b) ==
    LET t == LStrip(b) IN
    IF t # <<>> /\ Head(t) = 45 THEN -Digits(Tail(t), 0)
    ELSE IF t # <<>> /\ Head(t) = 43 THEN Digits(Tail(t), 0)
    ELSE Digits(t, 0)

ipc_hex_nibble(c) ==
    IF c \in 48..57 THEN c - 48
    ELSE IF c \in 97..102 THEN 10 + (c - 97)
    ELSE IF c \in 65..70 THEN 10 + (c - 65)
    ELSE -1

RECURSIVE PctDecode(_, _)
\* [ok |-> the value returned, dst |-> the bytes written so far]
PctDecode(src, dst) ==
    IF src = <<>> THEN [ok |-> TRUE, dst |-> dst]
    ELSE IF Head(src) # PCT THEN PctDecode(Tail(src), Append(dst, Head(src)))
    ELSE IF Len(src) < 3 THEN [ok |-> FALSE, dst |-> dst]
    ELSE IF ipc_hex_nibble(src[2]) < 0 \/ ipc_hex_nibble(src[3]) < 0
         THEN [ok |-> FALSE, dst |-> dst]
    ELSE PctDecode(SubSeq(src, 4, Len(src)),
                   Append(dst, 16 * ipc_hex_nibble(src[2]) + ipc_hex_nibble(src[3])))

\* [ok |-> the value returned, s |-> the string s holds afterwards]
ipc_pct_decode_inplace(s) ==
    LET r == PctDecode(s, <<>>) IN [ok |-> r.ok, s |-> CStr(r.dst)]

(* -------------------------- percent-encoding --------------------------- *)
\* ipc_pct_is_unreserved() that takes the percent sign for unreserved
ipc_pct_is_unreserved_pct(c) ==
    \/ c >= 65 /\ c <= 90
    \/ c >= 97 /\ c <= 122
    \/ c >= 48 /\ c <= 57
    \/ c \in {45, 95, 46, 126, PCT}

\* A-Z, a-z, 0-9, '-', '_', '.', '~'
ipc_pct_is_unreserved(c) ==
    \/ c >= 65 /\ c <= 90
    \/ c >= 97 /\ c <= 122
    \/ c >= 48 /\ c <= 57
    \/ c \in {45, 95, 46, 126}

\* one digit of the conversion %02X
HexUpper(d) == IF d < 10 THEN 48 + d ELSE 55 + d

RECURSIVE buf_add_pct_encoded(_)
\* for (p = s; *p; ++p): the bytes added to the buffer
buf_add_pct_encoded(s) ==
    IF s = <<>> \/ Head(s) = NUL THEN <<>>
    ELSE (IF ipc_pct_is_unreserved(Head(s)) THEN <<Head(s)>>
          ELSE <<PCT, HexUpper(Head(s) \div 16), HexUpper(Head(s) % 16)>>)
         \o buf_add_pct_encoded(Tail(s))

(* ------------------------------- JSON ---------------------------------- *)
\* one digit of the conversion %04x
HexLower(d) == IF d < 10 THEN 48 + d ELSE 87 + d

\* the switch of buf_add_json_string(): what one byte of the string adds
JsonEscape(c) ==
    IF c = 34 THEN <<92, 34>>               \* \"
    ELSE IF c = 92 THEN <<92, 92>>          \* \\
    ELSE IF c = 8 THEN <<92, 98>>           \* \b
    ELSE IF c = 12 THEN <<92, 102>>         \* \f
    ELSE IF c = LF THEN <<92, 110>>         \* \n
    ELSE IF c = CR THEN <<92, 114>>         \* \r
    ELSE IF c = TAB THEN <<92, 116>>        \* \t
    ELSE IF c < 32
    THEN <<92, 117, 48, 48, HexLower(c \div 16), HexLower(c % 16)>>   \* \u%04x
    ELSE <<c>>

RECURSIVE JsonBody(_)
\* for (p = s; *p; ++p)
JsonBody(s) ==
    IF s = <<>> \/ Head(s) = NUL THEN <<>>
    ELSE JsonEscape(Head(s)) \o JsonBody(Tail(s))

buf_add_json_string(s) == <<34>> \o JsonBody(s) \o <<34>>

\* the literal parts of the list-workspaces-json response
js_open == <<123, 34, 99, 117, 114, 114, 101, 110, 116, 95, 119, 111, 114, 107, 115, 112, 97, 99, 101, 34, 58>>
js_current_name == <<44, 34, 99, 117, 114, 114, 101, 110, 116, 95, 119, 111, 114, 107, 115, 112, 97, 99, 101, 95, 110, 97, 109, 101, 34, 58>>
js_workspaces == <<44, 34, 119, 111, 114, 107, 115, 112, 97, 99, 101, 115, 34, 58, 91>>
js_index == <<123, 34, 105, 110, 100, 101, 120, 34, 58>>
js_name == <<44, 34, 110, 97, 109, 101, 34, 58>>
js_active == <<44, 34, 97, 99, 116, 105, 118, 101, 34, 58>>
js_true == <<116, 114, 117, 101>>
js_false == <<102, 97, 108, 115, 101>>
js_close == <<93, 125>> \o <<LF>>

RECURSIVE JsonWorkspaces(_, _)
\* wl_list_for_each(ws, &server->workspaces.all, link) from index idx on
JsonWorkspaces(s, idx) ==
    IF idx > Len(s.all) THEN <<>>
    ELSE (IF idx = 1 THEN <<>> ELSE <<44>>)
         \o js_index \o Decimal(idx) \o js_name
         \o buf_add_json_string(s.all[idx].name)
         \o js_active \o (IF idx = s.current THEN js_true ELSE js_false)
         \o <<125>>
         \o JsonWorkspaces(s, idx + 1)

\* handle_query_workspaces_json(): the bytes of the response
handle_query_workspaces_json(s) ==
    js_open \o Decimal(workspace_index(s, s.current)) \o js_current_name
    \o buf_add_json_string(IF s.current \in 1..Len(s.all)
                           THEN s.all[s.current].name ELSE <<>>)
    \o js_workspaces \o JsonWorkspaces(s, 1) \o js_close

(* --------------------------- workspaces_find --------------------------- *)
\* &server->workspaces.all, the list head that links the last workspace to
\* the first; the link of a workspace is its index
wl_list_head == NULL

\* link->prev
link_prev(s, link) == IF link = wl_list_head THEN Len(s.all) ELSE link - 1

\* link->next
link_next(s, link) ==
    IF link = wl_list_head THEN (IF Len(s.all) = 0 THEN wl_list_head ELSE 1)
    ELSE IF link = Len(s.all) THEN wl_list_head
    ELSE link + 1

\* get_prev() that rolls over whatever wrap says
get_prev_roll(s, cur, wrap) ==
    LET target_link == link_prev(s, cur)
    IN  IF target_link = wl_list_head THEN link_prev(s, target_link)
        ELSE target_link

get_prev(s, cur, wrap) ==
    LET target_link == link_prev(s, cur)
    IN  IF target_link = wl_list_head
        THEN IF ~wrap THEN NULL ELSE link_prev(s, target_link)
        ELSE target_link

get_next(s, cur, wrap) ==
    LET target_link == link_next(s, cur)
    IN  IF target_link = wl_list_head
        THEN IF ~wrap THEN NULL ELSE link_next(s, target_link)
        ELSE target_link

\* workspace_has_views() that counts omnipresent windows too
workspace_has_views_any(s, workspace) ==
    \E v \in Views : s.views[v].mapped /\ s.views[v].workspace = workspace

\* for_each_view(view, &server->views, LAB_VIEW_CRITERIA_NO_OMNIPRESENT)
workspace_has_views(s, workspace) ==
    \E v \in Views :
        /\ s.views[v].mapped
        /\ ~s.views[v].omni
        /\ s.views[v].workspace = workspace

\* the passes a search over n workspaces is followed for; a search that has
\* not ended by then never ends
Passes(s) == 2 * Len(s.all) + 4

RECURSIVE AdjacentLoopUnbounded(_, _, _, _, _, _, _, _)
\* the loop of get_adjacent_occupied() without its two stop rules
AdjacentLoopUnbounded(s, start, wrap, reverse, link, has_wrapped, wraps, pass) ==
    IF pass > Passes(s)
    THEN [ended |-> FALSE, target |-> NULL, wraps |-> wraps, passes |-> pass - 1]
    ELSE IF link = wl_list_head
    THEN IF ~wrap
         THEN [ended |-> TRUE, target |-> NULL, wraps |-> wraps, passes |-> pass]
         ELSE AdjacentLoopUnbounded(s, start, wrap, reverse,
                  IF reverse THEN link_prev(s, wl_list_head)
                  ELSE link_next(s, wl_list_head),
                  TRUE, wraps + 1, pass + 1)
    ELSE IF link # start /\ workspace_has_views(s, link)
    THEN [ended |-> TRUE, target |-> link, wraps |-> wraps, passes |-> pass]
    ELSE AdjacentLoopUnbounded(s, start, wrap, reverse,
             IF reverse THEN link_prev(s, link) ELSE link_next(s, link),
             has_wrapped, wraps, pass + 1)

RECURSIVE AdjacentLoop(_, _, _, _, _, _, _, _)
\* while (true) of get_adjacent_occupied(), entered for the pass-th time with
\* link and has_wrapped; wraps counts the wrap-arounds taken so far. The
\* result tells whether the loop ended and with which workspace.
AdjacentLoop(s, start, wrap, reverse, link, has_wrapped, wraps, pass) ==
    IF pass > Passes(s)
    THEN [ended |-> FALSE, target |-> NULL, wraps |-> wraps, passes |-> pass - 1]
    ELSE IF link = wl_list_head
    THEN IF ~wrap \/ has_wrapped
         THEN [ended |-> TRUE, target |-> NULL, wraps |-> wraps, passes |-> pass]
         ELSE AdjacentLoop(s, start, wrap, reverse,
                  IF reverse THEN link_prev(s, wl_list_head)
                  ELSE link_next(s, wl_list_head),
                  TRUE, wraps + 1, pass + 1)
    ELSE IF link = start
    THEN [ended |-> TRUE, target |-> NULL, wraps |-> wraps, passes |-> pass]
    ELSE IF link # start /\ workspace_has_views(s, link)
    THEN [ended |-> TRUE, target |-> link, wraps |-> wraps, passes |-> pass]
    ELSE AdjacentLoop(s, start, wrap, reverse,
             IF reverse THEN link_prev(s, link) ELSE link_next(s, link),
             has_wrapped, wraps, pass + 1)

\* the run of get_adjacent_occupied() from its first statement
AdjacentSearch(s, cur, wrap, reverse) ==
    AdjacentLoop(s, cur, wrap, reverse,
                 IF reverse THEN link_prev(s, cur) ELSE link_next(s, cur),
                 FALSE, 0, 1)

get_adjacent_occupied(s, cur, wrap, reverse) ==
    AdjacentSearch(s, cur, wrap, reverse).target

get_prev_occupied(s, cur, wrap) == get_adjacent_occupied(s, cur, wrap, TRUE)
get_next_occupied(s, cur, wrap) == get_adjacent_occupied(s, cur, wrap, FALSE)

RECURSIVE DigitRun(_)
\* the number of digits strtol() consumes
DigitRun(b) ==
    IF b # <<>> /\ Head(b) \in 48..57 THEN 1 + DigitRun(Tail(b)) ELSE 0

\* strtol(name, &endptr, 10), then errno || *endptr != '\0' || index < 0
parse_workspace_index(name) ==
    LET t == LStrip(name)
        signed == t # <<>> /\ Head(t) \in {43, 45}
        digits == IF signed THEN Tail(t) ELSE t
    IN  IF DigitRun(digits) = 0 \/ DigitRun(digits) < Len(digits) THEN 0
        ELSE IF signed /\ Head(t) = 45 THEN 0
        ELSE Digits(digits, 0)

workspace_find_by_name(s, name) ==
    LET parsed_index == parse_workspace_index(name)
        named == {i \in 1..Len(s.all) : s.all[i].name = name}
    IN  IF parsed_index # 0 /\ parsed_index <= Len(s.all) THEN parsed_index
        ELSE IF named # {} THEN CHOOSE i \in named : \A j \in named : i <= j
        ELSE NULL

kw_current == <<99, 117, 114, 114, 101, 110, 116>>
kw_last == <<108, 97, 115, 116>>
kw_left == <<108, 101, 102, 116>>
kw_right == <<114, 105, 103, 104, 116>>
kw_left_occupied == <<108, 101, 102, 116, 45, 111, 99, 99, 117, 112, 105, 101, 100>>
kw_right_occupied == <<114, 105, 103, 104, 116, 45, 111, 99, 99, 117, 112, 105, 101, 100>>

\* workspaces_find(anchor, name, wrap); name = Absent is the null pointer
workspaces_find(s, anchor, name, wrap) ==
    IF name = Absent THEN NULL
    ELSE IF strcasecmp_eq(name, kw_current) THEN anchor
    ELSE IF strcasecmp_eq(name, kw_last) THEN s.last
    ELSE IF strcasecmp_eq(name, kw_left) THEN get_prev(s, anchor, wrap)
    ELSE IF strcasecmp_eq(name, kw_right) THEN get_next(s, anchor, wrap)
    ELSE IF strcasecmp_eq(name, kw_left_occupied)
    THEN get_prev_occupied(s, anchor, wrap)
    ELSE IF strcasecmp_eq(name, kw_right_occupied)
    THEN get_next_occupied(s, anchor, wrap)
    ELSE workspace_find_by_name(s, name)

(* --------------------------- action facility --------------------------- *)
\* The action facility (action_create, action_is_valid, actions_run) is the
\* compositor's; one action stands for it here: Execute, which requires the
\* argument command and whose effect lies outside the workspace registry.
kw_Execute == <<69, 120, 101, 99, 117, 116, 101>>
kw_command == <<99, 111, 109, 109, 97, 110, 100>>

\* whether an action of that name exists
action_create(name) == strcasecmp_eq(name, kw_Execute)

\* whether the key=value tokens hold the argument the action requires
action_is_valid(name, args) == ArgValue(args, kw_command, Absent) # Absent

actions_run(s, name, args) == Emit(s, [k |-> "actions_run", name |-> name])

(* --------------------------- command dispatch -------------------------- *)
\* handle_command(): the responses go to the client that sent the line
handle_command(s, text) ==
    LET line == string_strip(text)
        args == Tail(Tokens(line, <<>>, <<>>))
        \* if (!workspaces_...(server, ...)) send the error, else send OK
        Reply(r, error) ==
            IF ~r.ok THEN ipc_send_str(s, error) ELSE ipc_send_str(r.st, "OK\n")
    IN
    IF line = <<>> THEN s
    ELSE IF strcasecmp_eq(line, kw_ping) THEN ipc_send_str(s, "OK\n")
    ELSE IF strcasecmp_eq(line, kw_subscribe_events)
    THEN ipc_send_str(
            Emit(IF s.fd = NULL THEN s
                 ELSE [s EXCEPT !.clients[s.fd].subscribed_events =
                                    s.clients[s.fd].live],
                 [k |-> "subscribe"]),
            "OK subscribed-events\n")
    ELSE IF strcasecmp_eq(line, kw_list_views)
    THEN handle_query(s, "views")
    ELSE IF strcasecmp_eq(line, kw_list_views_json)
    THEN handle_query(s, "views-json")
    ELSE IF strcasecmp_eq(line, kw_list_workspaces)
    THEN handle_query(s, "workspaces")
    ELSE IF strcasecmp_eq(line, kw_list_workspaces_json)
    THEN handle_query(s, "workspaces-json")
    ELSE IF strncasecmp_eq(line, kw_workspace_add)
    THEN
        LET name == ArgValue(args, kw_name, <<>>)
            dec == ipc_pct_decode_inplace(name)
        IN  IF name # <<>> /\ ~dec.ok
            THEN ipc_send_str(s, "ERROR invalid percent-encoding in name\n")
            ELSE
            Reply(workspaces_add_named(s,
                      IF name = <<>> THEN Decimal(wl_list_length(s) + 1) ELSE dec.s),
                  "ERROR failed to add workspace\n")
    ELSE IF strncasecmp_eq(line, kw_workspace_rename)
    THEN
        LET name == ArgValue(args, kw_name, <<>>)
            index == atoi(ArgValue(args, kw_index, <<>>))
            dec == ipc_pct_decode_inplace(name)
        IN  IF index < 1 \/ name = <<>>
            THEN ipc_send_str(s, "ERROR usage: workspace-rename index=N name=...\n")
            ELSE IF ~dec.ok
            THEN ipc_send_str(s, "ERROR invalid percent-encoding in name\n")
            ELSE
            Reply(workspaces_rename_index(s, index, dec.s),
                  "ERROR failed to rename workspace\n")
    ELSE IF strncasecmp_eq(line, kw_workspace_remove)
    THEN
        LET index == atoi(ArgValue(args, kw_index, <<>>))
        IN  IF index < 1
            THEN ipc_send_str(s, "ERROR usage: workspace-remove index=N\n")
            ELSE
            Reply(workspaces_remove_index(s, index),
                  "ERROR failed to remove workspace\n")
    ELSE
        LET action_name == Head(Tokens(line, <<>>, <<>>))
        IN  IF ~action_create(action_name)
            THEN ipc_send_str(s, "ERROR unknown action\n")
            ELSE IF ~action_is_valid(action_name, args)
            THEN ipc_send_str(s, "ERROR missing required argument\n")
            ELSE ipc_send_str(actions_run(s, action_name, args), "OK\n")

(* ---------------------------- line framing ----------------------------- *)
\* what the build does once handle_client_readable uses a client that was
\* freed under it: the freed memory still reads as before, or the process dies
UbOutcomes == {"intact", "abort"}

RECURSIVE DispatchLines(_, _, _, _)
\* while ((nl = strchr(start, '\n'))): [st |-> the state afterwards,
\* start |-> the text left after the last line feed]
DispatchLines(s, c, start, ub) ==
    LET nl == strchr(start, LF, 1)
        \* start = nl + 1, after handle_command(client, start) gave s1
        Step(s1, rest) ==
            IF s1.clients[c].live \/ ub = "intact"
            THEN DispatchLines(s1, c, rest, ub)
            ELSE [st |-> [s1 EXCEPT !.crashed = TRUE], start |-> <<>>]
        Line(line) ==
            Step(handle_command(
                     Emit(s, [k |-> "dispatch", fd |-> c, line |-> line]), line),
                 SubSeq(start, nl + 1, Len(start)))
    IN  IF nl = 0 THEN [st |-> s, start |-> start]
        ELSE Line(SubSeq(start, 1, nl - 1))

handle_client_readable_late(s, c, mask, rd, ub) ==
    LET Late(s1, t, start) ==
            IF ~t.clients[c].live THEN t
            ELSE IF Len(s1.clients[c].recv_buf) > IPC_MAX_RECV_BUF
            THEN [ipc_client_destroy(
                     ipc_send_str([t EXCEPT !.fd = c], "ERROR line too long\n"), c)
                     EXCEPT !.fd = NULL]
            ELSE [t EXCEPT !.clients[c].recv_buf = start]
        Lines(s1, d) == Late(s1, [d.st EXCEPT !.fd = NULL], d.start)
        Append1(s1) == Lines(s1, DispatchLines(s1, c, s1.clients[c].recv_buf, ub))
    IN  IF mask # "readable" THEN ipc_client_destroy(s, c)
        ELSE IF rd.kind \in {"eintr", "eagain"} THEN s
        ELSE IF rd.kind # "data" THEN ipc_client_destroy(s, c)
        ELSE Append1([s EXCEPT !.clients[c].recv_buf = @ \o CStr(rd.buf), !.fd = c])

\* handle_client_readable(): mask is the event on the descriptor, rd what
\* read() returns: data (n > 0, the bytes in buf), eof (n = 0), or n < 0
\* with eintr, eagain or another error
handle_client_readable(s, c, mask, rd, ub) ==
    LET \* the remaining partial line is kept in the buffer
        Keep(t, start) ==
            IF t.clients[c].live
            THEN [t EXCEPT !.clients[c].recv_buf = start]
            ELSE t
        Lines(d) == Keep([d.st EXCEPT !.fd = NULL], d.start)
        \* after buf_add(&client->recv_buf, buf)
        Added(s1) ==
            IF Len(s1.clients[c].recv_buf) > IPC_MAX_RECV_BUF
            THEN [ipc_client_destroy(ipc_send_str(s1, "ERROR line too long\n"), c)
                     EXCEPT !.fd = NULL]
            ELSE Lines(DispatchLines(s1, c, s1.clients[c].recv_buf, ub))
    IN  IF mask # "readable" THEN ipc_client_destroy(s, c)
        ELSE IF rd.kind \in {"eintr", "eagain"} THEN s
        ELSE IF rd.kind # "data" THEN ipc_client_destroy(s, c)
        ELSE Added([s EXCEPT !.clients[c].recv_buf = @ \o CStr(rd.buf), !.fd = c])

\* the event loop finds n bytes to read on descriptor c
ReadData(s, c, n, ub) ==
    LET p == s.clients[c].pending
        s1 == [s EXCEPT !.clients[c].pending = SubSeq(p, n + 1, Len(p))]
    IN  handle_client_readable(s1, c, "readable",
            [kind |-> "data", buf |-> SubSeq(p, 1, n)], ub)

(* ------------------------------ inputs --------------------------------- *)
\* name arguments as clients write them: %61, the empty text, %4, %zz
NameArgs == {<<37, 54, 49>>, <<>>, <<37, 52>>, <<37, 122, 122>>}
\* index arguments
IndexArgs == 0..(MaxWs + 1)

AddLine(n) == kw_workspace_add \o <<SPACE>> \o kw_name \o <<EQ>> \o n
RenameLine(i, n) ==
    kw_workspace_rename \o <<SPACE>> \o kw_index \o <<EQ>> \o Decimal(i)
        \o <<SPACE>> \o kw_name \o <<EQ>> \o n
RemoveLine(i) == kw_workspace_remove \o <<SPACE>> \o kw_index \o <<EQ>> \o Decimal(i)

\* state files left by an earlier session: none, or the names a and 2
PrevFiles == {Absent, Serialize(<<<<97>>, Decimal(2)>>)}
\* declared workspace lists of rc.xml; the configuration holds at least one name
RcLists == {<<Decimal(1)>>, <<Decimal(1), <<97>>>>, [i \in 1..MaxWs |-> Decimal(i)]}

(* ------------------------------ actions -------------------------------- *)
Commit(s) ==
    /\ all' = s.all
    /\ current' = s.current
    /\ last' = s.last
    /\ views' = s.views
    /\ grabbed' = s.grabbed
    /\ file' = s.file
    /\ fs_ok' = s.fs_ok
    /\ clients' = s.clients
    /\ crashed' = s.crashed

\* the server before workspaces_init(): no workspace, no window
Boot(ok, prev) ==
    [all |-> <<>>, current |-> NULL, last |-> NULL,
     views |-> [v \in Views |-> NoView], grabbed |-> NULL,
     file |-> prev, fs_ok |-> ok, log |-> <<>>,
     clients |-> [c \in Fds |-> NoClient], crashed |-> FALSE, fd |-> NULL]

Init ==
    \E ok \in BOOLEAN, prev \in PrevFiles :
        LET s == workspaces_init(Boot(ok, prev))
        IN  /\ all = s.all
            /\ current = s.current
            /\ last = s.last
            /\ views = s.views
            /\ grabbed = s.grabbed
            /\ file = s.file
            /\ fs_ok = s.fs_ok
            /\ clients = s.clients
            /\ crashed = s.crashed

\* a client sends workspace-add, with or without a name argument
IpcWorkspaceAdd ==
    /\ Len(all) < MaxWs
    /\ \/ Commit(handle_command(St, kw_workspace_add))
       \/ \E n \in NameArgs : Commit(handle_command(St, AddLine(n)))

IpcWorkspaceRename ==
    \E i \in IndexArgs, n \in NameArgs : Commit(handle_command(St, RenameLine(i, n)))

IpcWorkspaceRemove ==
    \E i \in IndexArgs : Commit(handle_command(St, RemoveLine(i)))

\* the action facility or the focus code switches to a workspace
Switch ==
    \E target \in 1..Len(all) : Commit(workspaces_switch_to(St, target, FALSE))

\* handle_cosmic_workspace_activate()
CosmicActivate ==
    \E workspace \in 1..Len(all) : Commit(workspaces_switch_to(St, workspace, TRUE))

\* handle_ext_workspace_activate()
ExtActivate ==
    \E workspace \in 1..Len(all) : Commit(workspaces_switch_to(St, workspace, TRUE))

Reconfigure ==
    \E rc \in RcLists : Commit(workspaces_reconfigure(St, rc))

\* a window is mapped: it spawns on the current workspace
ViewMap ==
    \E v \in Views :
        /\ ~views[v].mapped
        /\ views' = [views EXCEPT ![v] =
                        [mapped |-> TRUE, workspace |-> current, omni |-> FALSE]]
        /\ UNCHANGED <<all, current, last, grabbed, file, fs_ok, clients, crashed>>

ViewUnmap ==
    \E v \in Views :
        /\ views[v].mapped
        /\ views' = [views EXCEPT ![v] = NoView]
        /\ grabbed' = IF grabbed = v THEN NULL ELSE grabbed
        /\ UNCHANGED <<all, current, last, file, fs_ok, clients, crashed>>

ToggleOmnipresent ==
    \E v \in Views :
        /\ views[v].mapped
        /\ views' = [views EXCEPT ![v].omni = ~@]
        /\ UNCHANGED <<all, current, last, grabbed, file, fs_ok, clients, crashed>>

\* an interactive move or resize starts or ends
Grab ==
    \E v \in Views \cup {NULL} :
        /\ v # NULL => views[v].mapped
        /\ grabbed # v
        /\ grabbed' = v
        /\ UNCHANGED <<all, current, last, views, file, fs_ok, clients, crashed>>

Next ==
    \/ IpcWorkspaceAdd
    \/ IpcWorkspaceRename
    \/ IpcWorkspaceRemove
    \/ Switch
    \/ CosmicActivate
    \/ ExtActivate
    \/ Reconfigure

\* the registry under every command, switch and reconfiguration, without windows
Spec == Init /\ [][Next]_vars

\* a client sends workspace-add without a name
IpcWorkspaceAddBare ==
    /\ Len(all) < MaxWs
    /\ Commit(handle_command(St, kw_workspace_add))

NextViews ==
    \/ ViewMap
    \/ ViewUnmap
    \/ ToggleOmnipresent
    \/ Grab
    \/ Switch
    \/ CosmicActivate
    \/ ExtActivate
    \/ IpcWorkspaceAddBare
    \/ IpcWorkspaceRemove

\* the registry with windows, in a session whose state directory is writable
InitViews == Init /\ fs_ok

SpecViews == InitViews /\ [][NextViews]_vars

(* --------------------------- connections ------------------------------- *)
\* what the connection actions leave alone
Registry == <<all, current, last, views, grabbed, file, fs_ok, crashed>>

\* byte streams clients write: li, st-workspaces LF, ping LF LF ping LF,
\* NUL ping LF, a run of x without a line feed longer than half the cap,
\* and that run followed by LF ping LF
Filler == [i \in 1..(IPC_MAX_RECV_BUF \div 2 + 1) |-> 120]
Streams ==
    {SubSeq(kw_list_workspaces, 1, 2),
     SubSeq(kw_list_workspaces, 3, Len(kw_list_workspaces)) \o <<LF>>,
     kw_ping \o <<LF, LF>> \o kw_ping \o <<LF>>,
     <<NUL>> \o kw_ping \o <<LF>>,
     Filler,
     Filler \o <<LF>> \o kw_ping \o <<LF>>}

\* requests clients write in one piece and the server reads in one piece
kw_Bogus == <<66, 111, 103, 117, 115>>
Requests ==
    {kw_subscribe_events \o <<LF>>,
     kw_workspace_add \o <<LF>>,
     kw_ping \o <<LF>>,
     kw_list_workspaces \o <<LF>>,
     kw_Bogus \o <<LF>>,
     kw_Execute \o <<LF>>,
     kw_Execute \o <<SPACE>> \o kw_command \o <<EQ, 120, LF>>,
     kw_subscribe_events \o <<LF>> \o kw_workspace_add \o <<LF>>,
     kw_workspace_add \o <<LF>> \o kw_ping \o <<LF>>,
     kw_Bogus \o <<LF>> \o kw_ping \o <<LF>>}

\* the start of a line that a client writes without its line feed
Partials == {Filler}

\* handle_new_connection(): accept() returns the lowest free descriptor
Accept ==
    \E c \in Fds :
        /\ ~crashed
        /\ ~clients[c].live
        /\ \A d \in 1..(c - 1) : clients[d].live
        /\ clients' = [clients EXCEPT ![c] = NewClient]
        /\ UNCHANGED Registry

\* the only connection is accepted
AcceptOne == (\A c \in Fds : ~clients[c].live) /\ Accept

\* a client writes a stream to its socket
ClientWrites ==
    \E c \in Fds, stream \in Streams :
        /\ ~crashed
        /\ clients[c].live
        /\ clients[c].pending = <<>>
        /\ clients' = [clients EXCEPT ![c].pending = stream]
        /\ UNCHANGED Registry

\* a descriptor is readable and read() returns the first n pending bytes
ClientReadable ==
    \E c \in Fds, ub \in UbOutcomes :
        /\ ~crashed
        /\ clients[c].live
        /\ \E n \in 1..Len(clients[c].pending) :
              /\ n <= IPC_BUF_SIZE - 1
              /\ Commit(ReadData(St, c, n, ub))

\* read() returns no data: interrupted, nothing to read, end of stream, error
ClientReadFails ==
    \E c \in Fds, kind \in {"eintr", "eagain", "eof", "error"} :
        /\ ~crashed
        /\ clients[c].live
        /\ kind \in {"eagain", "eof"} => clients[c].pending = <<>>
        /\ Commit(handle_client_readable(St, c, "readable",
                      [kind |-> kind, buf |-> <<>>], "intact"))

\* the event loop reports WL_EVENT_HANGUP or WL_EVENT_ERROR on a descriptor
ClientHangup ==
    \E c \in Fds, mask \in {"hangup", "error"} :
        /\ ~crashed
        /\ clients[c].live
        /\ Commit(handle_client_readable(St, c, mask,
                      [kind |-> "eof", buf |-> <<>>], "intact"))

\* a peer stops or resumes reading its socket
SocketStalls ==
    \E c \in Fds :
        /\ ~crashed
        /\ clients[c].live
        /\ clients' = [clients EXCEPT ![c].writable = ~@]
        /\ UNCHANGED Registry

\* a client writes a request and the server reads it in one piece
ClientRequest ==
    \E c \in Fds, request \in Requests \cup Partials, ub \in UbOutcomes :
        /\ ~crashed
        /\ clients[c].live
        /\ LET Bounded(r) == Len(r.all) <= MaxWs /\ Commit(r)
           IN  Bounded(ReadData([St EXCEPT !.clients[c].pending = request],
                                c, Len(request), ub))

NextFraming ==
    \/ AcceptOne
    \/ ClientWrites
    \/ ClientReadable
    \/ ClientReadFails
    \/ ClientHangup

\* one connection, its streams split across reads in every way
SpecFraming == InitViews /\ [][NextFraming]_vars

NextIpc ==
    \/ Accept
    \/ ClientRequest
    \/ SocketStalls
    \/ ClientReadFails
    \/ ClientHangup

\* several connections, requests, subscriptions and sockets that stall
SpecIpc == InitViews /\ [][NextIpc]_vars

\* windows come, go, are grabbed and change their omnipresence while the
\* registry grows and shrinks and the current workspace changes
NextOccupancy ==
    \/ ViewMap
    \/ ViewUnmap
    \/ ToggleOmnipresent
    \/ Grab
    \/ Switch
    \/ IpcWorkspaceAddBare
    \/ IpcWorkspaceRemove

SpecOccupancy == InitViews /\ [][NextOccupancy]_vars

(* ------------------------------- names -------------------------------- *)
\* names clients give to workspaces: a control byte, a line feed, the text
\* %41, a double quote, a backslash, e acute in UTF-8, the byte FF, w d
\* with a space, and the unreserved punctuation
ByteNames ==
    {<<1>>, <<LF>>, <<PCT, 52, 49>>, <<34>>, <<92>>, <<195, 169>>, <<255>>,
     <<119, SPACE, 100>>, <<45, 95, 46, 126>>}

\* name arguments with an escape that is cut short or is not hexadecimal:
\* %, %4, a%, %zz, %4g, a%41%
BadEscapeArgs ==
    {<<PCT>>, <<PCT, 52>>, <<97, PCT>>, <<PCT, 122, 122>>, <<PCT, 52, 103>>,
     <<97, PCT, 52, 49, PCT>>}

\* name arguments clients send: the encoded names, web%20docs, %00, and
\* the malformed ones
kw_web_docs == <<119, 101, 98, PCT, 50, 48, 100, 111, 99, 115>>
EncodedArgs ==
    {buf_add_pct_encoded(n) : n \in ByteNames}
        \cup {kw_web_docs, <<PCT, 48, 48>>} \cup BadEscapeArgs

\* a client adds a workspace under an encoded name
IpcWorkspaceAddEncoded ==
    \E arg \in EncodedArgs :
        /\ Len(all) < MaxWs
        /\ Commit(handle_command(St, AddLine(arg)))

\* a client renames the last workspace to an encoded name
IpcWorkspaceRenameEncoded ==
    \E arg \in EncodedArgs :
        Commit(handle_command(St, RenameLine(Len(all), arg)))

NextNames ==
    \/ IpcWorkspaceAddEncoded
    \/ IpcWorkspaceRenameEncoded

\* registries whose names hold every kind of byte
SpecNames == InitViews /\ [][NextNames]_vars

(* ======================= properties of the log ========================= *)
Sends(lg) == SelectSeq(lg, LAMBDA e : e.k = "send")
EventsNamed(lg, name) == SelectSeq(lg, LAMBDA e : e.k = "event" /\ e.name = name)
Persists(lg) == SelectSeq(lg, LAMBDA e : e.k = "persist")

ErrorResponses ==
    {"ERROR invalid percent-encoding in name\n", "ERROR failed to add workspace\n",
     "ERROR usage: workspace-rename index=N name=...\n",
     "ERROR failed to rename workspace\n",
     "ERROR usage: workspace-remove index=N\n", "ERROR failed to remove workspace\n",
     "ERROR unknown action\n", "ERROR missing required argument\n"}

\* the handler answered with one ERROR line and did nothing else
OnlyError(lg) == Len(lg) = 1 /\ lg[1].k = "send" /\ lg[1].msg \in ErrorResponses

\* the handler left the server state as it found it
Untouched(r) ==
    /\ r.all = all
    /\ r.current = current
    /\ r.last = last
    /\ r.views = views
    /\ r.grabbed = grabbed
    /\ r.file = file

\* the position a workspace at position w has after the one at i is destroyed
After(w, i) == IF w > i THEN w - 1 ELSE w
\* the fallback of a removal at position i in a list of n workspaces
Successor(i, n) == IF i = n THEN 1 ELSE i + 1

(* ============================== claims ================================= *)

\* C1: the registry always holds at least one workspace, and workspace-remove
\* sent while it holds exactly one is answered with an error and changes
\* nothing, whatever index it names.
C1_NeverEmpty ==
    /\ Len(all) >= 1
    /\ Len(all) = 1 =>
          \A i \in IndexArgs :
              LET r == handle_command(St, RemoveLine(i))
              IN  OnlyError(r.log) /\ Untouched(r)

\* a registry that has shrunk back to one workspace, where workspace-remove
\* index=1 is refused
C1_Witness ==
    /\ Len(all) = 1
    /\ last # NULL
    /\ OnlyError(handle_command(St, RemoveLine(1)).log)

\* C2: current always refers to a workspace of the registry; it is never
\* unset and never a destroyed workspace.
C2_CurrentIsMember == current \in 1..Len(all)

\* the current workspace, or the last one with the current as its fallback,
\* has been destroyed: only then last and current are the same workspace
C2_Witness == last = current /\ current \in 1..Len(all) /\ Len(all) >= 2

\* C3: Switch(target) with target other than current ends with current =
\* target and last = the workspace that was current, and broadcasts exactly
\* one workspace-changed event.
C3_SwitchPost ==
    \A target \in 1..Len(all), update_focus \in BOOLEAN :
        target # current =>
            LET r == workspaces_switch_to(St, target, update_focus)
            IN  /\ r.current = target
                /\ r.last = current
                /\ Len(EventsNamed(r.log, "workspace-changed")) = 1
                /\ EventsNamed(r.log, "workspace-changed")[1].current = target

\* the registry [A, B, C] after Switch(C) from B, where a further switch is due
C3_Witness ==
    /\ Len(all) = 3
    /\ current = 3
    /\ last = 2
    /\ workspaces_switch_to(St, 1, TRUE).last = 3

\* C4: Switch(target) with target = current changes nothing: current, last,
\* the visuals and active flags of every workspace and the workspace of every
\* window stay as they are, and nothing is done or broadcast.
C4_SwitchToCurrentIsNoOp ==
    \A update_focus \in BOOLEAN :
        LET r == workspaces_switch_to(St, current, update_focus)
        IN  r.log = <<>> /\ Untouched(r)

\* an omnipresent window that is being moved, after an earlier switch
C4_Witness ==
    /\ last # NULL
    /\ Len(all) >= 2
    /\ \E v \in Views : views[v].mapped /\ views[v].omni /\ grabbed = v
    /\ workspaces_switch_to(St, current, TRUE).log = <<>>

\* name arguments with a truncated (%4) or invalid (%zz) escape
BadEscapes == {<<37, 52>>, <<37, 122, 122>>}

\* C5: workspace-rename with an empty name, an index outside 1..size or a bad
\* escape in the name, workspace-remove with an index outside 1..size or at
\* size 1, and workspace-add with a bad escape in the name are answered with
\* one ERROR line and leave registry and state file as they are, with no
\* persistence and no broadcast.
C5_InvalidMutationRejected ==
    /\ \A i \in IndexArgs, n \in NameArgs :
          (n = <<>> \/ i \notin 1..Len(all) \/ n \in BadEscapes) =>
              LET r == handle_command(St, RenameLine(i, n))
              IN  OnlyError(r.log) /\ Untouched(r)
    /\ \A i \in IndexArgs :
          (i \notin 1..Len(all) \/ Len(all) = 1) =>
              LET r == handle_command(St, RemoveLine(i))
              IN  OnlyError(r.log) /\ Untouched(r)
    /\ \A n \in BadEscapes :
          LET r == handle_command(St, AddLine(n))
          IN  OnlyError(r.log) /\ Untouched(r)

\* a registry of several workspaces, persisted, where a rename past the end
\* and an add with a truncated escape are refused
C5_Witness ==
    /\ Len(all) >= 2
    /\ last # NULL
    /\ file = Serialize(Names(St))
    /\ OnlyError(handle_command(St, RenameLine(Len(all) + 1, <<37, 54, 49>>)).log)
    /\ OnlyError(handle_command(St, AddLine(<<37, 52>>)).log)

\* the lines that mutate the registry
MutationLines ==
    {kw_workspace_add} \cup {AddLine(n) : n \in NameArgs}
        \cup {RenameLine(i, n) : i \in IndexArgs, n \in NameArgs}
        \cup {RemoveLine(i) : i \in IndexArgs}

\* the persistence attempts, list-changed broadcasts and responses of a log
Outcome(lg) ==
    SelectSeq(lg, LAMBDA e :
        \/ e.k \in {"persist", "send"}
        \/ e.k = "event" /\ e.name = "workspace-list-changed")

\* C6: a command that adds or removes a workspace or changes a name persists
\* the new ordered name list once, then broadcasts workspace-list-changed
\* once, then answers OK, and does nothing after the answer.
C6_PersistThenBroadcastThenOk ==
    \A line \in MutationLines :
        LET r == handle_command(St, line)
            o == Outcome(r.log)
        IN  Names(r) # Names(St) =>
                /\ Len(o) = 3
                /\ o[1].k = "persist"
                /\ o[1].data = Serialize(Names(r))
                /\ o[2].k = "event"
                /\ o[2].count = Len(r.all)
                /\ o[3] = [k |-> "send", msg |-> "OK\n"]
                /\ r.log[Len(r.log)] = o[3]

\* a renamed and grown registry whose state file holds its names, where a
\* removal is due
C6_Witness ==
    /\ fs_ok
    /\ Len(all) = 3
    /\ all[1].name = <<97>>
    /\ file = Serialize(Names(St))
    /\ Names(handle_command(St, RemoveLine(2))) # Names(St)

\* C7: workspace-remove of index i in a registry of n >= 2 workspaces moves
\* every window of the removed workspace to the workspace that was at i + 1,
\* or at 1 when i = n, and keeps the other workspaces in their order with
\* their names.
C7_RemoveMovesWindowsToSuccessor ==
    \A i \in 1..Len(all) :
        Len(all) >= 2 =>
            LET r == handle_command(St, RemoveLine(i))
                n == Len(all)
            IN  /\ Sends(r.log) = <<[k |-> "send", msg |-> "OK\n"]>>
                /\ \A v \in Views :
                      (views[v].mapped /\ views[v].workspace = i) =>
                          r.views[v].workspace = After(Successor(i, n), i)
                /\ Names(r) = [j \in 1..(n - 1) |->
                                  all[IF j < i THEN j ELSE j + 1].name]

\* a window on the last of three workspaces, which is not the current one:
\* removing that workspace moves the window to the first
C7_Witness ==
    /\ Len(all) = 3
    /\ current # 3
    /\ \E v \in Views :
          /\ views[v].mapped
          /\ views[v].workspace = 3
          /\ handle_command(St, RemoveLine(3)).views[v].workspace = 1

\* the position in a log of the first entry of the given kind, 0 if none
FirstOf(lg, kind) ==
    IF \E j \in 1..Len(lg) : lg[j].k = kind
    THEN CHOOSE j \in 1..Len(lg) :
             lg[j].k = kind /\ \A h \in 1..(j - 1) : lg[h].k # kind
    ELSE 0

\* C8: a successful workspace-remove of the current workspace switches to the
\* fallback before the workspace is destroyed and ends with current =
\* fallback; of the last workspace, ends with last = fallback; of a
\* workspace that is neither, leaves current and last referring to the
\* workspaces they referred to.
C8_RemoveRepointsCurrentAndLast ==
    \A i \in 1..Len(all) :
        Len(all) >= 2 =>
            LET r == handle_command(St, RemoveLine(i))
                fb == Successor(i, Len(all))
                ev == EventsNamed(r.log, "workspace-changed")
            IN  /\ current = i =>
                      /\ r.current = After(fb, i)
                      /\ Len(ev) = 1
                      /\ ev[1].current = fb
                      /\ FirstOf(r.log, "event") > 0
                      /\ FirstOf(r.log, "event") < FirstOf(r.log, "destroy")
                /\ last = i => r.last = After(fb, i)
                /\ (current # i /\ last # i) =>
                      /\ r.current = After(current, i)
                      /\ r.last = (IF last = NULL THEN NULL ELSE After(last, i))
                      /\ ev = <<>>

\* three workspaces, the second current and the third last: removing the
\* second makes the third current, removing the third repoints last to the
\* first, removing the first keeps both
C8_Witness ==
    /\ Len(all) = 3
    /\ current = 2
    /\ last = 3
    /\ handle_command(St, RemoveLine(2)).current = 2
    /\ handle_command(St, RemoveLine(3)).last = 1
    /\ handle_command(St, RemoveLine(1)).current = 1

\* the changes of visuals a handler made, in order
Toggles(lg) == SelectSeq(lg, LAMBDA e : e.k = "enabled")

\* after each change of visuals at most one workspace has visuals enabled
OneAtATime(lg) == \A j \in 1..Len(lg) : lg[j].k = "enabled" => Cardinality(lg[j].on) <= 1

C10_CurrentAloneActiveAndEnabled ==
    \A w \in 1..Len(all) :
        /\ all[w].enabled = (w = current)
        /\ all[w].cosmic_active = (w = current)
        /\ all[w].ext_active = (w = current)

\* three workspaces, the second current after a switch from the first
C10_Witness ==
    /\ Len(all) = 3
    /\ current = 2
    /\ last = 1
    /\ all[2].enabled /\ all[2].cosmic_active /\ all[2].ext_active
    /\ ~all[1].enabled /\ ~all[1].cosmic_active /\ ~all[1].ext_active

\* whether a command line is a workspace-remove of the workspace at position i
IsRemoveOf(line, i) == line = RemoveLine(i)

\* C11: workspace-add, workspace-rename, a workspace-remove of a workspace
\* other than the current one, and a reconfiguration that destroys no
\* workspace leave current referring to the workspace it referred to and
\* broadcast no workspace-changed event.
C11_CurrentChangesOnlyInSwitch ==
    /\ \A line \in MutationLines :
          ~IsRemoveOf(line, current) =>
              LET r == handle_command(St, line)
                  removed == {i \in 1..Len(all) :
                                 IsRemoveOf(line, i) /\ Len(r.all) < Len(all)}
              IN  /\ EventsNamed(r.log, "workspace-changed") = <<>>
                  /\ r.current = (IF removed = {} THEN current
                                  ELSE After(current, CHOOSE i \in removed : TRUE))
    /\ \A rc \in RcLists :
          LET r == workspaces_reconfigure(St, rc)
          IN  Len(r.all) >= Len(all) =>
                  /\ EventsNamed(r.log, "workspace-changed") = <<>>
                  /\ r.current = current

\* the second of two workspaces is current: an add, a rename, a removal of
\* the first and a growing reconfiguration all act
C11_Witness ==
    /\ Len(all) = 2
    /\ current = 2
    /\ last = 1
    /\ Len(handle_command(St, kw_workspace_add).all) = 3
    /\ handle_command(St, RenameLine(2, <<37, 54, 49>>)).all[2].name = <<97>>
    /\ handle_command(St, RemoveLine(1)).current = 1
    /\ \E rc \in RcLists : Len(workspaces_reconfigure(St, rc).all) = 3

\* the lines handed to handle_command, in order
Dispatched(lg) ==
    LET d == SelectSeq(lg, LAMBDA e : e.k = "dispatch")
    IN  [j \in 1..Len(d) |-> d[j].line]

RECURSIVE CompleteLines(_, _, _)
\* the line-feed-terminated lines of a byte stream, without their line feeds
CompleteLines(bytes, line, out) ==
    IF bytes = <<>> THEN out
    ELSE IF Head(bytes) = LF THEN CompleteLines(Tail(bytes), <<>>, Append(out, line))
    ELSE CompleteLines(Tail(bytes), Append(line, Head(bytes)), out)

RECURSIVE TrailingPartial(_, _)
\* what follows the last line feed of a byte stream
TrailingPartial(bytes, line) ==
    IF bytes = <<>> THEN line
    ELSE IF Head(bytes) = LF THEN TrailingPartial(Tail(bytes), <<>>)
    ELSE TrailingPartial(Tail(bytes), Append(line, Head(bytes)))

\* C12: for the bytes pending on a connection, one read of all of them and
\* two reads that split them at any point dispatch the same lines, namely
\* the line-feed-terminated lines of the buffered partial line followed by
\* the pending bytes, each once and in order, and keep the trailing partial
\* line, whenever no read exceeds the cap.
C12_SplitIndependent ==
    \A c \in Fds :
        clients[c].live =>
            LET p == clients[c].pending
                stream == clients[c].recv_buf \o p
                whole == ReadData(St, c, Len(p), "intact")
            IN  \A n \in 1..(Len(p) - 1) :
                    LET first == ReadData(St, c, n, "intact")
                        parts == IF first.clients[c].live
                                 THEN ReadData(first, c, Len(p) - n, "intact")
                                 ELSE first
                    IN  (whole.clients[c].live /\ parts.clients[c].live) =>
                            /\ Dispatched(parts.log) = Dispatched(whole.log)
                            /\ Dispatched(whole.log) = CompleteLines(stream, <<>>, <<>>)
                            /\ whole.clients[c].recv_buf = TrailingPartial(stream, <<>>)
                            /\ parts.clients[c].recv_buf = TrailingPartial(stream, <<>>)

\* C13: a connection's buffer never holds more than the cap; a read whose
\* bytes make the buffer exceed the cap is answered with the one line
\* ERROR line too long, destroys the connection and dispatches no line, not
\* even the complete lines the buffer then holds.
C13_OverflowDisconnects ==
    \A c \in Fds :
        clients[c].live =>
            /\ Len(clients[c].recv_buf) <= IPC_MAX_RECV_BUF
            /\ \A n \in 1..Len(clients[c].pending), ub \in UbOutcomes :
                  LET buf == SubSeq(clients[c].pending, 1, n)
                      r == ReadData(St, c, n, ub)
                  IN  Len(clients[c].recv_buf \o CStr(buf)) > IPC_MAX_RECV_BUF =>
                          /\ ~r.clients[c].live
                          /\ Dispatched(r.log) = <<>>
                          /\ Sends(r.log) =
                                 <<[k |-> "send", msg |-> "ERROR line too long\n"]>>
                          /\ Len(SelectSeq(r.log, LAMBDA e : e.k = "close")) = 1
                          /\ Untouched(r)

\* the buffer holds a run without line feed and the pending bytes, which
\* hold two complete lines, take it over the cap
C13_Witness ==
    \E c \in Fds :
        /\ clients[c].live
        /\ clients[c].recv_buf = Filler
        /\ clients[c].pending = Filler \o <<LF>> \o kw_ping \o <<LF>>
        /\ ~ReadData(St, c, Len(clients[c].pending), "intact").clients[c].live

\* the requests of the connections, and the removal of the first workspace,
\* which is two events when that workspace is the current one
Asked == Requests \cup {RemoveLine(1) \o <<LF>>}

\* the server's handling of a request that client c wrote in one piece
Handle(c, request, ub) ==
    ReadData([St EXCEPT !.clients[c].pending = request], c, Len(request), ub)

\* the EVENT lines written to descriptor f, in order
EventWrites(lg, f) ==
    SelectSeq(lg, LAMBDA e : e.k = "write" /\ e.fd = f /\ e.data.k = "event")

RECURSIVE EventsWhileSubscribed(_, _, _)
\* the events of a log that happen while a client is subscribed, where sub
\* says whether it is subscribed at the start and issuer whether
\* the subscribe entries of the log are its own
EventsWhileSubscribed(lg, sub, issuer) ==
    IF lg = <<>> THEN <<>>
    ELSE IF Head(lg).k = "subscribe"
    THEN EventsWhileSubscribed(Tail(lg), sub \/ issuer, issuer)
    ELSE IF Head(lg).k = "event" /\ sub
    THEN <<Head(lg)>> \o EventsWhileSubscribed(Tail(lg), sub, issuer)
    ELSE EventsWhileSubscribed(Tail(lg), sub, issuer)

\* for every request of every live client: a client is written the events
\* that happen while it is subscribed, each once and in order, and no other;
\* a subscribed client that lives on stays subscribed
C14_Deliveries ==
    \A c \in Fds, request \in Asked, ub \in UbOutcomes :
        clients[c].live =>
            LET r == Handle(c, request, ub)
            IN  \A f \in Fds :
                    LET w == EventWrites(r.log, f)
                        due == EventsWhileSubscribed(
                                   r.log, clients[f].subscribed_events, f = c)
                    IN  /\ ~clients[f].live => w = <<>>
                        /\ Len(w) <= Len(due)
                        /\ \A j \in 1..Len(w) : w[j].data = due[j]
                        /\ (clients[f].live /\ r.clients[f].live) =>
                              /\ Len(w) = Len(due)
                              /\ \A j \in 1..Len(w) : w[j].ok
                              /\ clients[f].subscribed_events =>
                                     r.clients[f].subscribed_events

\* a connection that is subscribed and lives on is subscribed afterwards
C14_FlagKept ==
    \A f \in Fds :
        (clients[f].live /\ clients[f].subscribed_events /\ clients'[f].live) =>
            clients'[f].subscribed_events

\* C14: an EVENT line is written only to a connection that has sent
\* subscribe-events; every event is written once to every live subscribed
\* connection; the subscribed flag of a live connection is never cleared,
\* and a repeated subscribe-events does not duplicate events.
C14_EventsOnlyToSubscribers == []C14_Deliveries /\ [][C14_FlagKept]_vars

\* two live connections, the first subscribed, the second not: the second
\* adds a workspace and the event reaches the first alone, and removes the
\* current workspace and both events reach the first alone; the first
\* subscribes again and adds a workspace and is written the event once
C14_Witness ==
    /\ clients[1].live /\ clients[1].subscribed_events /\ clients[1].writable
    /\ clients[2].live /\ ~clients[2].subscribed_events
    /\ Len(all) < MaxWs
    /\ LET r == Handle(2, kw_workspace_add \o <<LF>>, "intact")
       IN  Len(EventWrites(r.log, 1)) = 1 /\ EventWrites(r.log, 2) = <<>>
    /\ LET r == Handle(2, RemoveLine(1) \o <<LF>>, "intact")
       IN  Len(EventWrites(r.log, 1)) = 2 /\ EventWrites(r.log, 2) = <<>>
    /\ LET r == Handle(1, kw_subscribe_events \o <<LF>> \o kw_workspace_add \o <<LF>>,
                       "intact")
       IN  Len(EventWrites(r.log, 1)) = 1

\* the responses of a log: OK and ERROR lines and query payloads
Responses(lg) == SelectSeq(lg, LAMBDA e : e.k \in {"send", "query"})

\* the responses written to descriptor f with success
ResponseWrites(lg, f) ==
    SelectSeq(lg, LAMBDA e :
        e.k = "write" /\ e.fd = f /\ e.ok /\ e.data.k \in {"send", "query"})

\* C15: when a request changes the registry and the event cannot be written
\* to a subscriber f, f is disconnected and nothing else goes wrong: the
\* server lives on, every other connection stays, every other subscriber is
\* written every event, the new name list is in the state file, and the
\* issuing connection, if it takes data, is written one response per line.
C15_SendFailureIsolated ==
    \A c \in Fds, f \in Fds, request \in Asked, ub \in UbOutcomes :
        LET r == Handle(c, request, ub)
        IN  (/\ clients[c].live
             /\ clients[f].live /\ clients[f].subscribed_events /\ ~clients[f].writable
             /\ Names(r) # Names(St)) =>
                /\ ~r.clients[f].live
                /\ ~r.crashed
                /\ \A g \in Fds :
                      (clients[g].live /\ clients[g].writable) =>
                          /\ r.clients[g].live
                          /\ clients[g].subscribed_events =>
                                 Len(EventWrites(r.log, g)) =
                                     Len(SelectSeq(r.log, LAMBDA e : e.k = "event"))
                /\ r.file = Serialize(Names(r))
                /\ clients[c].writable =>
                      Len(ResponseWrites(r.log, c)) = Len(Dispatched(r.log))

\* the number of lines of a request that are not blank
RECURSIVE NonBlank(_)
NonBlank(lines) ==
    IF lines = <<>> THEN 0
    ELSE (IF string_strip(Head(lines)) = <<>> THEN 0 ELSE 1) + NonBlank(Tail(lines))

\* C16: every complete line that is not blank, of a request that keeps the
\* buffer within the cap, is dispatched and answered with one response on
\* the issuing connection's descriptor, the responses in the order of the
\* lines.
C16_OneResponsePerLine ==
    \A c \in Fds, request \in Asked, ub \in UbOutcomes :
        (/\ clients[c].live
         /\ Len(clients[c].recv_buf \o request) <= IPC_MAX_RECV_BUF) =>
            LET r == Handle(c, request, ub)
                lines == CompleteLines(clients[c].recv_buf \o request, <<>>, <<>>)
                steps == SelectSeq(r.log, LAMBDA e :
                             e.k \in {"dispatch", "send", "query"})
                writes == SelectSeq(r.log, LAMBDA e :
                             e.k = "write" /\ e.data.k \in {"send", "query"})
            IN  /\ Dispatched(r.log) = lines
                /\ Len(Responses(r.log)) = NonBlank(lines)
                /\ Len(steps) = 2 * NonBlank(lines)
                /\ \A j \in 1..Len(steps) :
                      (steps[j].k = "dispatch") = (j % 2 = 1)
                /\ Len(writes) = Len(Responses(r.log))
                /\ \A j \in 1..Len(writes) :
                      writes[j].fd = c /\ writes[j].data = Responses(r.log)[j]

(* ------------------------------- C17 ----------------------------------- *)
\* the nine built-in command words
Builtins ==
    {kw_ping, kw_subscribe_events, kw_list_views, kw_list_views_json,
     kw_list_workspaces, kw_list_workspaces_json, kw_workspace_add,
     kw_workspace_rename, kw_workspace_remove}

\* the word in upper case
Upper(b) == [i \in 1..Len(b) |-> IF b[i] >= 97 /\ b[i] <= 122 THEN b[i] - 32 ELSE b[i]]

\* the first whitespace-delimited token of a line
FirstToken(line) == Head(Tokens(string_strip(line), <<>>, <<>>))

\* lines whose first token is the built-in word: bare, in upper case, and
\* followed by a token that is not a key=value pair
LinesOf(kw) == {kw, Upper(kw), kw \o <<SPACE, 120>>, Upper(kw) \o <<TAB, 120>>}

\* lines whose first token is no built-in word, though one is its prefix
LinesPast(kw) == {kw \o <<120>>, kw \o <<120, SPACE, 120>>}

\* C17: the case-insensitive first token of the line selects the command: a
\* line whose first token is a built-in word does what the bare word does,
\* whatever tokens follow it, and a line with any other first token is
\* looked up as an action name.
C17_FirstTokenSelects ==
    /\ \A kw \in Builtins : \A line \in LinesOf(kw) :
          /\ \E b \in Builtins : strcasecmp_eq(FirstToken(line), b)
          /\ handle_command(St, line) = handle_command(St, kw)
    /\ \A kw \in Builtins : \A line \in LinesPast(kw) \cup {kw_Bogus} :
          /\ \A b \in Builtins : ~strcasecmp_eq(FirstToken(line), b)
          /\ handle_command(St, line).log =
                <<[k |-> "send", msg |-> "ERROR unknown action\n"]>>

(* ------------------------------- C18 ----------------------------------- *)
\* requests whose first line names no action, or Execute without its command
ActionErrors ==
    {kw_Bogus \o <<LF>>, kw_Execute \o <<LF>>, kw_Bogus \o <<LF>> \o kw_ping \o <<LF>>}

\* the server's handling of what client c writes next, after the state r
Then(r, c, request, ub) ==
    ReadData([r EXCEPT !.log = <<>>, !.clients[c].pending = request],
             c, Len(request), ub)

\* C18: a line that names an unknown action, or a known action without its
\* required argument, is answered with one ERROR line on the connection that
\* sent it; no action runs, the registry and every connection stay as they
\* were, the connection stays open, and the lines after it, in the same read
\* or a later one, are dispatched and answered.
C18_ActionErrorKeepsConnection ==
    \A c \in Fds, request \in ActionErrors, ub \in UbOutcomes :
        (/\ clients[c].live
         /\ Len(clients[c].recv_buf \o request) <= IPC_MAX_RECV_BUF) =>
            LET r == Handle(c, request, ub)
                lines == CompleteLines(clients[c].recv_buf \o request, <<>>, <<>>)
                writes == SelectSeq(r.log, LAMBDA e : e.k = "write")
                later == Then(r, c, kw_ping \o <<LF>>, ub)
            IN  /\ Responses(r.log)[1].k = "send"
                /\ Responses(r.log)[1].msg =
                      (IF clients[c].recv_buf = <<>> /\ request = kw_Execute \o <<LF>>
                       THEN "ERROR missing required argument\n"
                       ELSE "ERROR unknown action\n")
                /\ writes[1] = [k |-> "write", fd |-> c, data |-> Responses(r.log)[1],
                                ok |-> clients[c].writable]
                /\ \A j \in 1..Len(r.log) :
                      r.log[j].k \in {"dispatch", "send", "write"}
                /\ Untouched(r) /\ r.fs_ok = fs_ok /\ r.crashed = crashed
                /\ r.clients = [clients EXCEPT ![c].recv_buf = <<>>]
                /\ Dispatched(r.log) = lines
                /\ Len(Responses(r.log)) = Len(lines)
                /\ Len(lines) = 2 =>
                      Responses(r.log)[2] = [k |-> "send", msg |-> "OK\n"]
                /\ Dispatched(later.log) = <<kw_ping>>
                /\ Responses(later.log) = <<[k |-> "send", msg |-> "OK\n"]>>
                /\ later.clients[c].live

\* a subscribed connection whose peer has stopped reading names an unknown
\* action and then pings, and names Execute without its command; another
\* connection is open
C18_Witness ==
    /\ clients[1].live /\ clients[1].subscribed_events /\ ~clients[1].writable
    /\ clients[1].recv_buf = <<>>
    /\ clients[2].live
    /\ Len(Responses(Handle(1, kw_Bogus \o <<LF>> \o kw_ping \o <<LF>>, "intact").log)) = 2
    /\ Responses(Handle(1, kw_Execute \o <<LF>>, "intact").log) =
           <<[k |-> "send", msg |-> "ERROR missing required argument\n"]>>

(* ------------------------------- C19 ----------------------------------- *)
\* what the event loop and read() can report on a descriptor without data
Retry == {"eintr", "eagain"}
Closing ==
    {[mask |-> "readable", kind |-> "eof"], [mask |-> "readable", kind |-> "error"],
     [mask |-> "hangup", kind |-> "eof"], [mask |-> "error", kind |-> "eof"],
     [mask |-> "hangup", kind |-> "eagain"]}

\* what another connection requests once a connection is removed: a change
\* of the registry, which is an event for every subscriber, and a ping
Afterwards == {kw_workspace_add \o <<LF>>, kw_ping \o <<LF>>}

\* handle_client_readable() for client c on a report without data
Report(c, mask, kind) ==
    handle_client_readable(St, c, mask, [kind |-> kind, buf |-> <<>>], "intact")

\* C19: a read that would block or was interrupted changes nothing: the
\* connection stays open and its buffered partial line stays as it is. End
\* of stream, any other read error, and a hang-up or error event close the
\* descriptor and remove the connection and its buffer, and nothing else;
\* whatever another connection requests afterwards, nothing is written to
\* the removed one. No handling writes to a descriptor without a connection.
C19_RetryKeepsCloseRemoves ==
    /\ \A c \in Fds :
          clients[c].live =>
              /\ \A kind \in Retry : Report(c, "readable", kind) = St
              /\ \A e \in Closing :
                    LET r == Report(c, e.mask, e.kind)
                    IN  /\ r.log = <<[k |-> "close", fd |-> c]>>
                        /\ r.clients = [clients EXCEPT ![c] = NoClient]
                        /\ Untouched(r) /\ r.fs_ok = fs_ok /\ r.crashed = crashed
                        /\ \A d \in Fds, request \in Afterwards, ub \in UbOutcomes :
                              r.clients[d].live =>
                                  LET q == Then(r, d, request, ub)
                                  IN  /\ \A j \in 1..Len(q.log) :
                                            q.log[j].k \in {"write", "close"} =>
                                                q.log[j].fd # c
                                      /\ q.clients[c] = NoClient
    /\ \A c \in Fds, f \in Fds, request \in Requests, ub \in UbOutcomes :
          (clients[c].live /\ ~clients[f].live) =>
              LET r == Handle(c, request, ub)
              IN  \A j \in 1..Len(r.log) : r.log[j].k = "write" => r.log[j].fd # f

\* a subscribed connection holds a partial line when its read would block
\* and when its peer hangs up, and the other connection then adds a
\* workspace, which is an event for every subscriber
C19_Witness ==
    /\ clients[1].live /\ clients[1].subscribed_events /\ clients[1].writable
    /\ clients[1].recv_buf = Filler
    /\ clients[2].live /\ clients[2].writable
    /\ Len(all) < MaxWs
    /\ Report(1, "readable", "eagain").clients[1].recv_buf = Filler
    /\ LET r == Report(1, "hangup", "eof")
           q == Then(r, 2, kw_workspace_add \o <<LF>>, "intact")
       IN  /\ ~r.clients[1].live
           /\ Len(SelectSeq(q.log, LAMBDA e : e.k = "event")) = 1
           /\ Len(EventWrites(Handle(2, kw_workspace_add \o <<LF>>, "intact").log, 1)) = 1
           /\ EventWrites(q.log, 1) = <<>>

(* ------------------------------- C20 ----------------------------------- *)
\* workspace-add lines without a name: no argument, an empty name, an
\* argument that is not a name
UnnamedAdds ==
    {kw_workspace_add, AddLine(<<>>), kw_workspace_add \o <<SPACE>> \o kw_index \o <<EQ, 49>>}

\* C20: workspace-add without a name, or with an empty name, appends a
\* workspace named by the decimal form of the number of workspaces before
\* the add plus one, whether or not a workspace has that name already, and
\* answers OK.
C20_GeneratedNameIsSizePlusOne ==
    \A line \in UnnamedAdds :
        LET r == handle_command(St, line)
        IN  /\ Names(r) = Append(Names(St), Decimal(Len(all) + 1))
            /\ Sends(r.log) = <<[k |-> "send", msg |-> "OK\n"]>>

\* of the names 1, 2, 3 the second was removed, and the add gives 1, 3, 3
C20_Witness ==
    /\ Names(St) = <<Decimal(1), Decimal(3)>>
    /\ Names(handle_command(St, kw_workspace_add)) = <<<<49>>, <<51>>, <<51>>>>

(* ------------------------------- C21 ----------------------------------- *)
\* workspace-add lines: without a name and with every name argument
AddLines == {kw_workspace_add} \cup {AddLine(n) : n \in NameArgs}

\* C21: a workspace-add that is answered OK appends one workspace: the
\* registry is the old one, with every workspace as it was and in its place,
\* followed by the new workspace at index old size + 1; current and last are
\* unchanged, the list is persisted once and workspace-list-changed is
\* broadcast once.
C21_AddAppends ==
    \A line \in AddLines :
        LET r == handle_command(St, line)
        IN  Sends(r.log) = <<[k |-> "send", msg |-> "OK\n"]>> =>
                /\ Len(r.all) = Len(all) + 1
                /\ SubSeq(r.all, 1, Len(all)) = all
                /\ r.all[Len(all) + 1].name # <<>>
                /\ r.current = current
                /\ r.last = last
                /\ r.views = views
                /\ Len(Persists(r.log)) = 1
                /\ Len(EventsNamed(r.log, "workspace-list-changed")) = 1
                /\ EventsNamed(r.log, "workspace-changed") = <<>>

\* two workspaces, the second current and the first last, and an add with a
\* name that is answered OK
C21_Witness ==
    /\ Len(all) = 2 /\ current = 2 /\ last = 1
    /\ LET r == handle_command(St, AddLine(<<37, 54, 49>>))
       IN  /\ Sends(r.log) = <<[k |-> "send", msg |-> "OK\n"]>>
           /\ Names(r) = Append(Names(St), <<97>>)

(* ------------------------------- C22 ----------------------------------- *)
\* names a rename asks for: a, 1, 2, each also a name workspaces have
RenameTo == {<<97>>, Decimal(1), Decimal(2)}

\* C22: workspace-rename of a valid index to the name the workspace has is
\* answered OK and does nothing else: no persistence, no event. To another
\* name it changes the name of that workspace alone, persists once and
\* broadcasts workspace-list-changed once; the same line again then does
\* nothing but answer OK.
C22_RenameOnlyIfDifferent ==
    \A i \in 1..Len(all), name \in RenameTo :
        LET r == handle_command(St, RenameLine(i, name))
            again == handle_command([r EXCEPT !.log = <<>>], RenameLine(i, name))
            ok == <<[k |-> "send", msg |-> "OK\n"]>>
        IN  /\ Sends(r.log) = ok
            /\ r.all = [all EXCEPT ![i].name = name]
            /\ r.current = current /\ r.last = last /\ r.views = views
            /\ all[i].name = name => r.log = ok /\ r.file = file
            /\ all[i].name # name =>
                  /\ Len(Persists(r.log)) = 1
                  /\ Persists(r.log)[1].data = Serialize(Names(r))
                  /\ Len(EventsNamed(r.log, "workspace-list-changed")) = 1
                  /\ EventsNamed(r.log, "workspace-changed") = <<>>
            /\ again = [r EXCEPT !.log = ok]

\* three workspaces, the second current: the second is renamed from 2 to a,
\* and the first is renamed to the name it has
C22_Witness ==
    /\ Len(all) = 3 /\ current = 2 /\ last = 1 /\ fs_ok
    /\ Names(St) = <<Decimal(1), Decimal(2), Decimal(3)>>
    /\ Len(Persists(handle_command(St, RenameLine(2, <<97>>)).log)) = 1
    /\ handle_command(St, RenameLine(1, Decimal(1))).log =
           <<[k |-> "send", msg |-> "OK\n"]>>

(* ------------------------------- C23 ----------------------------------- *)
\* a log with its persistence entries marked as succeeded
AsPersisted(lg) ==
    [j \in 1..Len(lg) |->
        IF lg[j].k = "persist" THEN [lg[j] EXCEPT !.ok = TRUE] ELSE lg[j]]

\* C23: when persistence fails, at whichever step, a mutation command does
\* what it does when persistence succeeds, but for the state file, which
\* stays as it was: the registry is changed and not rolled back, the
\* workspace-list-changed event is broadcast, and the answer is OK.
C23_PersistFailureKeepsMutation ==
    \A line \in MutationLines :
        LET r == handle_command([St EXCEPT !.fs_ok = FALSE], line)
            good == handle_command([St EXCEPT !.fs_ok = TRUE], line)
        IN  /\ r.all = good.all /\ r.current = good.current /\ r.last = good.last
            /\ r.views = good.views
            /\ AsPersisted(r.log) = good.log
            /\ r.file = file
            /\ Names(r) # Names(St) =>
                  /\ Len(Persists(r.log)) = 1 /\ ~Persists(r.log)[1].ok
                  /\ Len(EventsNamed(r.log, "workspace-list-changed")) = 1
                  /\ Sends(r.log) = <<[k |-> "send", msg |-> "OK\n"]>>
                  /\ \A fail \in PersistFailures \ {"none"}, cut \in 0..2 :
                        LET steps == workspace_state_persist_steps(
                                         file, Persists(r.log)[1].data, fail, cut)
                        IN  steps[Len(steps)] = [file |-> file, tmp |-> Absent]

\* persistence fails and the state file holds the two names of an earlier
\* run: an add, a rename and a removal change the registry
C23_Witness ==
    /\ ~fs_ok
    /\ Len(all) = 2
    /\ file = Serialize(<<<<97>>, Decimal(2)>>)
    /\ Len(handle_command(St, kw_workspace_add).all) = 3
    /\ Names(handle_command(St, RenameLine(2, <<37, 54, 49>>))) = <<<<97>>, <<97>>>>
    /\ Len(handle_command(St, RemoveLine(1)).all) = 1

(* ------------------------------- C24 ----------------------------------- *)
\* a complete name list: every line of it is ended by its line feed
CompleteList(f) == Serialize(workspace_config_list_load_persisted(f)) = f

\* C24: the canonical state file is absent or holds a complete name list,
\* and after every step of every persistence attempt, whether it succeeds
\* or fails at any step and after any number of bytes, it holds what it
\* held before the attempt, but after the rename of a successful attempt,
\* when it holds the complete new list; the temporary file is gone when
\* the attempt ends.
C24_StateFileAlwaysComplete ==
    /\ file = Absent \/ CompleteList(file)
    /\ \A line \in MutationLines, ok \in BOOLEAN :
          LET Attempt(r, data, fail, cut) ==
                  LET Ends(steps, n) ==
                          /\ \A k \in 1..(n - 1) : steps[k].file = file
                          /\ steps[n].file = r.file
                          /\ steps[n].file =
                                (IF fail = "none" THEN Serialize(Names(r)) ELSE file)
                          /\ steps[n].file = Absent \/ CompleteList(steps[n].file)
                          /\ steps[n].tmp = Absent
                      Run(steps) == Ends(steps, Len(steps))
                  IN  Run(workspace_state_persist_steps(file, data, fail, cut))
              \* the bytes written before the failure matter to a failing write only
              Cuts(data, fail) == IF fail = "write" THEN 0..Len(data) ELSE {0}
              Attempts(r, made) ==
                  \A j \in 1..Len(made) :
                      \A fail \in (IF ok THEN {"none"} ELSE PersistFailures \ {"none"}) :
                          \A cut \in Cuts(made[j].data, fail) :
                              Attempt(r, made[j].data, fail, cut)
              Handled(r) == Attempts(r, Persists(r.log))
          IN  Handled(handle_command([St EXCEPT !.fs_ok = ok], line))

\* the state file holds two names and the registry three: a write that
\* fails after three bytes leaves a partial list in the temporary file
C24_Witness ==
    /\ file = Serialize(<<<<97>>, Decimal(2)>>)
    /\ Len(all) = 3
    /\ LET r == handle_command([St EXCEPT !.fs_ok = FALSE], RemoveLine(1))
           steps == workspace_state_persist_steps(file, Persists(r.log)[1].data, "write", 3)
       IN  /\ Len(Persists(r.log)) = 1
           /\ steps[Len(steps) - 1].tmp = <<50, LF, 51>>
           /\ steps[Len(steps)].file = file

(* ------------------------------- C25 ----------------------------------- *)
\* name arguments that decode to a name holding a line feed or ending in a
\* carriage return: a%0Ab, %0A, a%0D
EolNameArgs ==
    {<<97, PCT, 48, 65, 98>>, <<PCT, 48, 65>>, <<97, PCT, 48, 68>>}

\* C25: after a command has changed the registry and persisted it, loading
\* the state file gives the names of the registry: as many, in the same
\* order, with the same bytes.
C25_PersistLoadRoundTrip ==
    \A line \in MutationLines \cup {AddLine(n) : n \in EolNameArgs} :
        LET r == handle_command([St EXCEPT !.fs_ok = TRUE], line)
        IN  Names(r) # Names(St) =>
                /\ r.file = Serialize(Names(r))
                /\ workspace_config_list_load_persisted(r.file) = Names(r)

(* ------------------------------- C26 ----------------------------------- *)
HexUpperDigits == (48..57) \cup (65..70)

RECURSIVE PctAlphabet(_)
\* the text is made of unreserved characters and %XX triples
PctAlphabet(e) ==
    IF e = <<>> THEN TRUE
    ELSE IF Head(e) = PCT
    THEN /\ Len(e) >= 3
         /\ e[2] \in HexUpperDigits /\ e[3] \in HexUpperDigits
         /\ PctAlphabet(SubSeq(e, 4, Len(e)))
    ELSE /\ Head(e) \in (65..90) \cup (97..122) \cup (48..57) \cup {45, 95, 46, 126}
         /\ PctAlphabet(Tail(e))

\* decoding the encoding of the string s gives s, and the encoding is in
\* the alphabet, without space and line feed
RoundTrip(s) ==
    LET e == buf_add_pct_encoded(s)
        d == ipc_pct_decode_inplace(e)
    IN  /\ d.ok
        /\ d.s = s
        /\ PctAlphabet(e)
        /\ \A j \in 1..Len(e) : e[j] \notin {SPACE, LF, TAB, CR, NUL}

\* C26: for every string, those of the workspaces, those clients give, every
\* single byte and every byte after a percent sign, percent-decoding its
\* percent-encoding succeeds and returns it, and the encoding holds
\* unreserved characters and %XX triples only, so no space and no line feed.
C26_PctRoundTrip ==
    /\ \A i \in 1..Len(all) : RoundTrip(all[i].name)
    /\ \A s \in ByteNames : RoundTrip(s)
    /\ \A b \in 1..255 : RoundTrip(<<b>>) /\ RoundTrip(<<PCT, b>>)

\* the registry holds the text %41 and e acute in UTF-8, both given by a
\* client in encoded form
C26_Witness ==
    /\ Len(all) = 3
    /\ all[2].name = <<PCT, 52, 49>>
    /\ all[3].name = <<195, 169>>
    /\ buf_add_pct_encoded(all[2].name) = <<PCT, 50, 53, 52, 49>>
    /\ buf_add_pct_encoded(all[3].name) = <<PCT, 67, 51, PCT, 65, 57>>

(* ------------------------------- C27 ----------------------------------- *)
HexDigits == (48..57) \cup (65..70) \cup (97..102)

\* some percent sign of the argument is not followed by two hexadecimal digits
HasBadEscape(arg) ==
    \E j \in 1..Len(arg) :
        /\ arg[j] = PCT
        /\ ~(j + 2 <= Len(arg) /\ arg[j + 1] \in HexDigits /\ arg[j + 2] \in HexDigits)

\* name arguments with the escape of the NUL byte: %00, a%00b
NulArgs == {<<PCT, 48, 48>>, <<97, PCT, 48, 48, 98>>}

\* C27: decoding a name argument fails exactly when a percent sign in it is
\* not followed by two hexadecimal digits; the command is then answered
\* with an error and changes nothing; otherwise the command is answered OK
\* and the decoded bytes are the name the workspace has afterwards.
C27_DecodeFailsExactlyOnBadEscape ==
    \A arg \in EncodedArgs \cup NulArgs :
        LET dec == PctDecode(arg, <<>>)
            added == handle_command(St, AddLine(arg))
            renamed == handle_command(St, RenameLine(Len(all), arg))
            ok == <<[k |-> "send", msg |-> "OK\n"]>>
        IN  /\ ipc_pct_decode_inplace(arg).ok = ~HasBadEscape(arg)
            /\ HasBadEscape(arg) =>
                  /\ OnlyError(added.log) /\ Untouched(added)
                  /\ OnlyError(renamed.log) /\ Untouched(renamed)
            /\ ~HasBadEscape(arg) =>
                  /\ Sends(added.log) = ok
                  /\ Names(added) = Append(Names(St), dec.dst)
                  /\ Sends(renamed.log) = ok
                  /\ Names(renamed) = [Names(St) EXCEPT ![Len(all)] = dec.dst]

(* ------------------------------ C28 ------------------------------------ *)
JsonHex == (48..57) \cup (65..70) \cup (97..102)

\* a UTF-8 continuation byte at position i of b
JsonCont(b, i) == i <= Len(b) /\ b[i] \in 128..191

RECURSIVE JsonStringEnd(_, _)
\* RFC 8259 string: the position after the closing quote of the string whose
\* characters start at position i of b, 0 when the bytes are not a string
JsonStringEnd(b, i) ==
    IF i > Len(b) THEN 0
    ELSE IF b[i] = 34 THEN i + 1
    ELSE IF b[i] = 92
    THEN IF i + 1 > Len(b) THEN 0
         ELSE IF b[i + 1] \in {34, 92, 47, 98, 102, 110, 114, 116}
         THEN JsonStringEnd(b, i + 2)
         ELSE IF /\ b[i + 1] = 117
                 /\ i + 5 <= Len(b)
                 /\ \A k \in 2..5 : b[i + k] \in JsonHex
         THEN JsonStringEnd(b, i + 6)
         ELSE 0
    ELSE IF b[i] < 32 THEN 0
    ELSE IF b[i] < 128 THEN JsonStringEnd(b, i + 1)
    ELSE IF b[i] \in 194..223 /\ JsonCont(b, i + 1)
    THEN JsonStringEnd(b, i + 2)
    ELSE IF b[i] \in 224..239 /\ JsonCont(b, i + 1) /\ JsonCont(b, i + 2)
    THEN JsonStringEnd(b, i + 3)
    ELSE IF /\ b[i] \in 240..244
            /\ JsonCont(b, i + 1) /\ JsonCont(b, i + 2) /\ JsonCont(b, i + 3)
    THEN JsonStringEnd(b, i + 4)
    ELSE 0

RECURSIVE JsonDigitsEnd(_, _)
JsonDigitsEnd(b, i) ==
    IF i <= Len(b) /\ b[i] \in 48..57 THEN JsonDigitsEnd(b, i + 1) ELSE i

\* the bytes w stand at position i of b
JsonLiteral(b, i, w) ==
    i + Len(w) - 1 <= Len(b) /\ SubSeq(b, i, i + Len(w) - 1) = w

RECURSIVE JsonValueEnd(_, _), JsonMembersEnd(_, _), JsonElementsEnd(_, _)
\* RFC 8259 value without insignificant whitespace: the position after the
\* value that starts at position i of b, 0 when there is none
JsonValueEnd(b, i) ==
    IF i > Len(b) THEN 0
    ELSE IF b[i] = 34 THEN JsonStringEnd(b, i + 1)
    ELSE IF b[i] = 123
    THEN IF i + 1 <= Len(b) /\ b[i + 1] = 125 THEN i + 2
         ELSE JsonMembersEnd(b, i + 1)
    ELSE IF b[i] = 91
    THEN IF i + 1 <= Len(b) /\ b[i + 1] = 93 THEN i + 2
         ELSE JsonElementsEnd(b, i + 1)
    ELSE IF b[i] = 48 THEN i + 1
    ELSE IF b[i] \in 49..57 THEN JsonDigitsEnd(b, i)
    ELSE IF JsonLiteral(b, i, js_true) THEN i + Len(js_true)
    ELSE IF JsonLiteral(b, i, js_false) THEN i + Len(js_false)
    ELSE 0

JsonMembersEnd(b, i) ==
    LET Behind(v) == IF v = 0 \/ v > Len(b) THEN 0
                    ELSE IF b[v] = 125 THEN v + 1
                    ELSE IF b[v] = 44 THEN JsonMembersEnd(b, v + 1)
                    ELSE 0
        Colon(k) == IF k = 0 \/ k > Len(b) \/ b[k] # 58 THEN 0
                    ELSE Behind(JsonValueEnd(b, k + 1))
    IN  IF i > Len(b) \/ b[i] # 34 THEN 0
        ELSE Colon(JsonStringEnd(b, i + 1))

JsonElementsEnd(b, i) ==
    LET Behind(v) == IF v = 0 \/ v > Len(b) THEN 0
                    ELSE IF b[v] = 93 THEN v + 1
                    ELSE IF b[v] = 44 THEN JsonElementsEnd(b, v + 1)
                    ELSE 0
    IN  Behind(JsonValueEnd(b, i))

\* one JSON object, then the line feed, and no other line feed
JsonObjectLine(b) ==
    /\ Len(b) >= 3
    /\ b[1] = 123
    /\ JsonValueEnd(b, 1) = Len(b)
    /\ b[Len(b)] = LF
    /\ \A i \in 1..(Len(b) - 1) : b[i] # LF

\* C28: whatever the workspace names contain, the response to
\* list-workspaces-json is one valid JSON object on one line
C28_JsonResponseValid ==
    JsonObjectLine(handle_query_workspaces_json(St))

(* ------------------------------ C29 ------------------------------------ *)
\* C29: left of the first workspace and right of the last one are none
\* without wrap and the last and the first workspace with wrap; anywhere
\* else left and right are the workspace just before and just after the
\* anchor, whatever wrap says
C29_LeftRightStepOnce ==
    \A anchor \in 1..Len(all) : \A wrap \in BOOLEAN :
        LET left == workspaces_find(St, anchor, kw_left, wrap)
            right == workspaces_find(St, anchor, kw_right, wrap)
        IN  /\ anchor = 1 => left = IF wrap THEN Len(all) ELSE NULL
            /\ anchor = Len(all) => right = IF wrap THEN 1 ELSE NULL
            /\ anchor > 1 => left = anchor - 1
            /\ anchor < Len(all) => right = anchor + 1

C29_Witness ==
    /\ Len(all) = 3
    /\ workspaces_find(St, 1, kw_left, FALSE) = NULL
    /\ workspaces_find(St, 1, kw_left, TRUE) = 3
    /\ workspaces_find(St, 3, kw_right, TRUE) = 1
    /\ workspaces_find(St, 2, kw_left, FALSE) = 1
    /\ workspaces_find(St, 2, kw_right, TRUE) = 3

(* ------------------------------ C30 ------------------------------------ *)
\* the workspaces other than the anchor that hold a window
OccupiedBeside(anchor) ==
    {w \in 1..Len(all) : w # anchor /\ workspace_has_views(St, w)}

\* C30: the search for an occupied neighbour ends for every registry, anchor,
\* occupancy, direction and wrap setting, wraps around at most once, and
\* finds none when no workspace but the anchor holds a window
C30_OccupiedSearchTerminates ==
    \A anchor \in 1..Len(all) : \A wrap \in BOOLEAN : \A reverse \in BOOLEAN :
        LET search == AdjacentSearch(St, anchor, wrap, reverse)
            name == IF reverse THEN kw_left_occupied ELSE kw_right_occupied
        IN  /\ search.ended
            /\ search.wraps <= 1
            /\ OccupiedBeside(anchor) = {}
                   => workspaces_find(St, anchor, name, wrap) = NULL

C30_Witness ==
    \E anchor \in 1..Len(all) :
        /\ Len(all) >= 2
        /\ workspace_has_views(St, anchor)
        /\ OccupiedBeside(anchor) = {}
        /\ AdjacentSearch(St, anchor, TRUE, FALSE).wraps = 1
        /\ AdjacentSearch(St, anchor, TRUE, TRUE).wraps = 1
        /\ workspaces_find(St, anchor, kw_right_occupied, TRUE) = NULL

(* ------------------------------ C31 ------------------------------------ *)
\* texts that strtol() reads as 2 although they hold more than digits
SignedTargets == {<<43, 50>>, <<SPACE, 50>>, <<TAB, 43, 50>>}

\* targets that are no keyword: decimal numbers around the registry size, the
\* names of the registry, and texts that are neither
PlainTargets ==
    {Decimal(k) : k \in 0..(MaxWs + 1)}
        \cup {all[i].name : i \in 1..Len(all)}
        \cup {<<48, 50>>, <<45, 49>>, <<49, 97>>, <<49, 46, 53>>, <<98>>, <<50, SPACE>>}

\* a text of decimal digits only
PureDecimal(t) == t # <<>> /\ \A i \in 1..Len(t) : t[i] \in 48..57

\* the workspaces named t
NamedExactly(t) == {i \in 1..Len(all) : all[i].name = t}

\* what the target t is to resolve to
ResolvesTo(t) ==
    IF PureDecimal(t) /\ Digits(t, 0) \in 1..Len(all) THEN Digits(t, 0)
    ELSE IF NamedExactly(t) # {}
    THEN CHOOSE i \in NamedExactly(t) : \A j \in NamedExactly(t) : i <= j
    ELSE NULL

\* C31: a target that is no keyword resolves to the workspace at index k when
\* it is the decimal integer k, 1 <= k <= registry size, and nothing else,
\* even when a workspace is named by that text; any other target resolves to
\* the first workspace of that exact name, or to none
C31_IndexThenExactName ==
    \A t \in PlainTargets \cup SignedTargets :
        \A anchor \in 1..Len(all) : \A wrap \in BOOLEAN :
            workspaces_find(St, anchor, t, wrap) = ResolvesTo(t)

(* ------------------------------ C32 ------------------------------------ *)
\* the registry of a fresh session: the one workspace 1, current, shown and
\* active, and no last workspace
FreshRegistry(s) ==
    /\ s.all = <<[name |-> Decimal(1), enabled |-> TRUE,
                  cosmic_active |-> TRUE, ext_active |-> TRUE]>>
    /\ s.current = 1
    /\ s.last = NULL

\* the state files a session can start over: those of PrevFiles and the one
\* the running session leaves
LeftFiles == PrevFiles \cup {file}

\* C32: whatever state file an earlier session left, startup gives the
\* registry of the one workspace 1, current, enabled and active, with last
\* unset, and the state file then holds that single name
C32_StartupResets ==
    \A ok \in BOOLEAN, prev \in LeftFiles :
        LET s == workspaces_init(Boot(ok, prev))
        IN  FreshRegistry(s) /\ s.file = Serialize(<<Decimal(1)>>)

\* C32, amended: startup gives the registry of the one workspace 1 and makes
\* one attempt to persist it; the state file holds that single name when the
\* attempt succeeds and is what the earlier session left when it fails
C32_StartupResetsAndTriesToPersist ==
    \A ok \in BOOLEAN, prev \in LeftFiles :
        LET s == workspaces_init(Boot(ok, prev))
            attempts == SelectSeq(s.log, LAMBDA e : e.k = "persist")
        IN  /\ FreshRegistry(s)
            /\ Len(attempts) = 1
            /\ attempts[1].ok = ok
            /\ attempts[1].data = Serialize(<<Decimal(1)>>)
            /\ s.file = IF ok THEN Serialize(<<Decimal(1)>>) ELSE prev

\* the session has just started over the state file of an earlier session
\* that it could not overwrite
C32_Witness ==
    /\ ~fs_ok
    /\ file \in PrevFiles \ {Absent}
    /\ FreshRegistry(St)
    /\ LET s == workspaces_init(Boot(fs_ok, file))
       IN  s.all = all /\ s.current = current /\ s.last = last /\ s.file = file

(* ------------------------------ C33 ------------------------------------ *)
RECURSIVE NonEmptyLines(_, _)
\* the non-empty lines of the bytes f, in order; line is the line being read
NonEmptyLines(f, line) ==
    IF f = <<>> THEN (IF line = <<>> THEN <<>> ELSE <<line>>)
    ELSE IF Head(f) = LF
    THEN (IF line = <<>> THEN <<>> ELSE <<line>>) \o NonEmptyLines(Tail(f), <<>>)
    ELSE NonEmptyLines(Tail(f), Append(line, Head(f)))

\* the list a reconfiguration with the declared list rc is to establish
Desired(rc) ==
    IF file # Absent /\ NonEmptyLines(file, <<>>) # <<>>
    THEN NonEmptyLines(file, <<>>) ELSE rc

\* C33: a reconfiguration takes the non-empty lines of the state file as the
\* desired list when there is such a line and the declared list otherwise,
\* and afterwards the names of the registry, in order, are the desired list
C33_ReconfigureMatchesDesired ==
    \A rc \in RcLists :
        LET r == workspaces_reconfigure(St, rc)
        IN  /\ Names(r) = Desired(rc)
            /\ r.crashed = crashed

\* the state file lists more names than the registry has, under other names
C33_Witness ==
    \E rc \in RcLists :
        /\ file # Absent
        /\ Desired(rc) # rc
        /\ Len(Desired(rc)) > Len(all)
        /\ Names(St)[1] # Desired(rc)[1]
        /\ Names(workspaces_reconfigure(St, rc)) = Desired(rc)

(* ------------------------------ C34 ------------------------------------ *)
\* descriptor f is written to, or a line of its buffer dispatched, after the
\* connection was destroyed
UsedAfterDestroy(lg, f) ==
    \E i \in 1..Len(lg) : \E j \in (i + 1)..Len(lg) :
        /\ lg[i].k = "close" /\ lg[i].fd = f
        /\ lg[j].k \in {"write", "dispatch"} /\ lg[j].fd = f

\* C34: while the server handles what a connection has sent, no connection
\* is used after it was destroyed: nothing is written to its descriptor, no
\* further line of its buffer is dispatched, and the server lives on
C34_NoUseAfterDestroy ==
    \A c \in Fds, request \in Asked, ub \in UbOutcomes :
        clients[c].live =>
            LET r == Handle(c, request, ub)
            IN  /\ r.crashed = crashed
                /\ \A f \in Fds : ~UsedAfterDestroy(r.log, f)

(* ------------------------------ C35 ------------------------------------ *)
\* every workspace-changed event of the log of r carries the index the
\* current workspace has in r
ChangedCarriesCurrent(r) ==
    \A i \in 1..Len(r.log) :
        (r.log[i].k = "event" /\ r.log[i].name = "workspace-changed") =>
            r.log[i].current = workspace_index(r, r.current)

\* C35: the workspace-changed event of a switch, of a command and of a
\* reconfiguration carries as current= the index that the new current
\* workspace has in the registry when the operation is complete, also when
\* the switch is made because the current workspace is removed
C35_ChangedEventCarriesFinalIndex ==
    /\ \A target \in 1..Len(all) :
          ChangedCarriesCurrent(workspaces_switch_to(St, target, TRUE))
    /\ \A line \in MutationLines : ChangedCarriesCurrent(handle_command(St, line))
    /\ \A rc \in RcLists : ChangedCarriesCurrent(workspaces_reconfigure(St, rc))

(* ------------------------------ C36 ------------------------------------ *)
\* last is unset or a workspace of the registry of s
LastIsLive(s) == s.last = NULL \/ s.last \in 1..Len(s.all)

\* C36: last is unset or a live workspace of the registry in every state
\* that switches, removals, reconfigurations and the other commands reach,
\* and after a removal of the current workspace last is the fallback, which
\* is the current workspace
C36_LastIsUnsetOrLive ==
    /\ LastIsLive(St)
    /\ \A i \in 1..Len(all) :
          LET r == workspaces_remove_index(St, i)
          IN  (i = current /\ r.ok) =>
                  /\ r.st.last = r.st.current
                  /\ r.st.current \in 1..Len(r.st.all)

\* last is the workspace that a shrinking reconfiguration destroys, or the
\* current workspace is removed while last is another workspace
C36_Witness ==
    /\ last \in 1..Len(all) /\ last # current /\ Len(all) = 3
    /\ \E rc \in RcLists :
          LET r == workspaces_reconfigure(St, rc)
          IN  Len(r.all) < last /\ r.last = 1
    /\ LET r == workspaces_remove_index(St, current)
       IN  r.ok /\ r.st.last = r.st.current

(* ------------------------------ C37 ------------------------------------ *)
\* every window of s is on a workspace of the registry of s
ViewsOnLive(s) ==
    \A v \in Views : s.views[v].mapped => s.views[v].workspace \in 1..Len(s.all)

\* the state with the state file that an earlier session, or persistence
\* failing throughout this one, has left
Stale(f) == [St EXCEPT !.file = f]

\* C37: in every state that adds, removals and switches reach, and after
\* every removal and reconfiguration applied to it, each window, omnipresent
\* and grabbed ones included, is on a live workspace of the registry
C37_ViewsOnLiveWorkspaces ==
    /\ ViewsOnLive(St)
    /\ \A i \in 1..Len(all) : ViewsOnLive(workspaces_remove_index(St, i).st)
    /\ \A rc \in RcLists, f \in LeftFiles :
          ViewsOnLive(workspaces_reconfigure(Stale(f), rc))

\* an omnipresent window is on a workspace that is not current, and that
\* workspace is removed and destroyed by a shrinking reconfiguration
C37_Witness ==
    \E v \in Views :
        /\ views[v].mapped /\ views[v].omni
        /\ views[v].workspace # current
        /\ views[v].workspace = Len(all)
        /\ LET r == workspaces_remove_index(St, views[v].workspace)
           IN  r.ok /\ r.st.views[v].workspace = 1
        /\ \E rc \in RcLists :
              LET r == workspaces_reconfigure(Stale(Absent), rc)
              IN  Len(r.all) < Len(all) /\ r.views[v].workspace = 1

(* ------------------------------ C38 ------------------------------------ *)
\* a window that is not omnipresent is assigned to workspace w
Occupied(w) ==
    \E v \in Views : views[v].mapped /\ ~views[v].omni /\ views[v].workspace = w

\* the k-th workspace from the anchor in the search direction, cyclically
Stepped(anchor, reverse, k) ==
    IF reverse THEN ((anchor - 1 - k + Len(all)) % Len(all)) + 1
    ELSE ((anchor - 1 + k) % Len(all)) + 1

\* the number of workspaces the search may look at
Reach(anchor, wrap, reverse) ==
    IF wrap THEN Len(all) - 1
    ELSE IF reverse THEN anchor - 1
    ELSE Len(all) - anchor

\* the steps at which the search meets an occupied workspace
OccupiedSteps(anchor, wrap, reverse) ==
    {k \in 1..Reach(anchor, wrap, reverse) : Occupied(Stepped(anchor, reverse, k))}

\* the nearest occupied workspace in the search direction, or none
NearestOccupied(anchor, wrap, reverse) ==
    LET steps == OccupiedSteps(anchor, wrap, reverse)
    IN  IF steps = {} THEN NULL
        ELSE Stepped(anchor, reverse,
                     CHOOSE k \in steps : \A j \in steps : k <= j)

NothingDone(r) ==
    /\ r.all = all /\ r.current = current /\ r.last = last
    /\ r.views = views /\ r.file = file /\ r.clients = clients
    /\ \A i \in 1..Len(r.log) :
          r.log[i].k \notin {"persist", "event", "write", "destroy", "set_name", "move"}

\* C39: when the last persistence succeeded, so that the state file is the
\* list of the registry's names as workspace_state_persist writes it, a
\* reconfiguration adds, renames and destroys nothing, persists nothing and
\* broadcasts nothing, whatever the declared list
C39_ReconfigureAfterPersistIsNoOp ==
    file = Serialize(Names(St)) =>
        \A rc \in RcLists : NothingDone(workspaces_reconfigure(St, rc))

(* ------------------------------ C40 ------------------------------------ *)
\* the list a reconfiguration is to establish when the state file is f
DesiredFrom(f, rc) ==
    IF f # Absent /\ NonEmptyLines(f, <<>>) # <<>>
    THEN NonEmptyLines(f, <<>>) ELSE rc

\* the positions of the entries of kind k in the log lg
At(lg, k) == {i \in 1..Len(lg) : lg[i].k = k}

\* the positions of the events called name in the log lg
EventsAt(lg, name) == {i \in At(lg, "event") : lg[i].name = name}

\* C40: a reconfiguration whose desired list has k names, 1 <= k < registry
\* size, destroys the workspaces behind the k-th and no other, leaves every
\* window of a destroyed workspace on the first workspace, makes the first
\* workspace current by a switch when the current one is destroyed, points
\* last to the first workspace when last is destroyed, and persists and
\* broadcasts workspace-list-changed once each, after the last destruction
C40_ShrinkFallsBackToFirst ==
    \A rc \in RcLists, f \in LeftFiles :
        LET k == Len(DesiredFrom(f, rc))
            r == workspaces_reconfigure(Stale(f), rc)
            destroyed == At(r.log, "destroy")
        IN  (k >= 1 /\ k < Len(all)) =>
                /\ Len(r.all) = k
                /\ Cardinality(destroyed) = Len(all) - k
                /\ \A i \in destroyed : r.log[i].w > k
                /\ \A v \in Views :
                      (views[v].mapped /\ views[v].workspace > k) =>
                          r.views[v].workspace = 1
                /\ IF current > k
                   THEN /\ r.current = 1
                        /\ r.all[1].enabled
                        /\ Cardinality(EventsAt(r.log, "workspace-changed")) = 1
                   ELSE /\ r.current = current
                        /\ EventsAt(r.log, "workspace-changed") = {}
                /\ last > k => r.last = 1
                /\ Cardinality(At(r.log, "persist")) = 1
                /\ Cardinality(EventsAt(r.log, "workspace-list-changed")) = 1
                /\ \A i \in destroyed :
                      \A j \in At(r.log, "persist")
                               \cup EventsAt(r.log, "workspace-list-changed") : i < j

\* the current workspace, the last workspace and a window are on workspaces
\* that a reconfiguration to the declared list of one name destroys
C40_Witness ==
    /\ Len(all) = 3 /\ current = 3 /\ last = 2
    /\ \E v \in Views : views[v].mapped /\ views[v].workspace = 3
    /\ LET r == workspaces_reconfigure(Stale(Absent), <<Decimal(1)>>)
       IN  /\ Len(r.all) = 1 /\ r.current = 1 /\ r.last = 1
           /\ \A v \in Views : views[v].mapped => r.views[v].workspace = 1

====
